---- MODULE Spec2Model ----
(***************************************************************************)
(* Model of src/server.js (first program text of the file, lines 1-1654):  *)
(* an Express application whose handlers run against a Firestore handle    *)
(* `db` when `useFirebase` is set and against the in-memory `seedData`     *)
(* otherwise.                                                              *)
(*                                                                         *)
(* A request is served by the first registered route that matches it.  A   *)
(* handler runs synchronously up to its next `await`; every awaited store  *)
(* call is one atomic operation of the store.  An action of this module is *)
(* the synchronous code that follows one await, together with the store    *)
(* call it issues next, so requests interleave exactly at their awaits.    *)
(*                                                                         *)
(* Date values (startTime, createdAt, updatedAt) are wall-clock inputs     *)
(* that no handler branches on; they are left out of the documents.        *)
(***************************************************************************)
EXTENDS Integers, Sequences, FiniteSets, TLC

VARIABLES
    useFirebase,   \* mode flag, fixed at start-up
    db,            \* the document store: collection name -> (document id -> data)
    seedData,      \* the in-memory fallback dataset: collection name -> list
    seedFile,      \* content of seedData.json
    req,           \* per request slot: the request being handled and its locals
    res,           \* per request slot: the last response sent
    history        \* observer: the answered requests, in order of their answers

vars == <<useFirebase, db, seedData, seedFile, req, res, history>>

(***************************************************************************)
(* Bounds                                                                  *)
(***************************************************************************)
\* Number of distinct work-item references the callers use.
MaxRefs == 4
\* Number of answered requests the observer records in a sequential run.
MaxHist == 4
\* Number of documents collection.add() adds to one collection.
MaxAuto == 1
\* Number of requests the callers send in a run that logs every step.
MaxCalls == 3
\* Number of documents and dataset entries up to which entities are created.
MaxStored == 4

\* The number of requests of a run on the parts.
MaxPieceCalls == 5

\* The number of requests of a run of SpecMutate.
MaxRequests == 4

\* The first MaxRefs references, as a sequence.
RefSeq == SubSeq(<<"REP-1", "REP-2", "REP-3", "REP-4", "REP-5">>, 1, MaxRefs)

\* The ids collection.add() generates, in the order it generates them.
AutoSeq == SubSeq(<<"auto1", "auto2", "auto3">>, 1, MaxAuto)

Range(s) == {s[i] : i \in 1..Len(s)}

(***************************************************************************)
(* JavaScript values                                                       *)
(***************************************************************************)
\* A body field that is not present.
Undefined == "<undefined>"

\* `!x` is false: the value is neither undefined nor the empty string.
Truthy(v) == v # Undefined /\ v # ""

\* A destructured body field: undefined when the body has no such field.
Field(body, f) == IF f \in DOMAIN body THEN body[f] ELSE Undefined

(***************************************************************************)
(* JavaScript strings and numbers, as the handlers that mint ids use them  *)
(***************************************************************************)
\* s.startsWith(prefix)
StartsWith(s, prefix) ==
    /\ Len(s) >= Len(prefix)
    /\ SubSeq(s, 1, Len(prefix)) = prefix

\* s.replace(prefix, '') for an s that starts with the prefix.
Replace(s, prefix) == SubSeq(s, Len(prefix) + 1, Len(s))

\* The value of a decimal digit, -1 for any other character.
DigitValue(c) ==
    CASE c = "0" -> 0 [] c = "1" -> 1 [] c = "2" -> 2 [] c = "3" -> 3
      [] c = "4" -> 4 [] c = "5" -> 5 [] c = "6" -> 6 [] c = "7" -> 7
      [] c = "8" -> 8 [] c = "9" -> 9 [] OTHER -> -1

\* The number the leading decimal digits of s denote, from acc on.
RECURSIVE LeadingDigits(_, _)
LeadingDigits(s, acc) ==
    IF Len(s) = 0 \/ DigitValue(Head(s)) < 0
    THEN acc
    ELSE LeadingDigits(Tail(s), 10 * acc + DigitValue(Head(s)))

\* parseInt(s, 10) of a text without sign or leading blanks: the number its
\* leading digits denote, NaN when it starts with no digit.
ParseInt(s) ==
    IF Len(s) = 0 \/ DigitValue(Head(s)) < 0
    THEN [isNaN |-> TRUE, value |-> 0]
    ELSE [isNaN |-> FALSE, value |-> LeadingDigits(s, 0)]

\* num > max : false when num is NaN.
GreaterThan(num, max) == ~num.isNaN /\ num.value > max

\* String(n) for n >= 0.
RECURSIVE String(_)
String(n) ==
    LET d == <<"0", "1", "2", "3", "4", "5", "6", "7", "8", "9">>[(n % 10) + 1]
    IN  IF n < 10 THEN d ELSE String(n \div 10) \o d

\* s.padStart(n, c)
RECURSIVE PadStart(_, _, _)
PadStart(s, n, c) == IF Len(s) >= n THEN s ELSE PadStart(c \o s, n, c)

\* x || d
Or(x, d) == IF Truthy(x) THEN x ELSE d

(***************************************************************************)
(* Routing: app.get / app.post / app.put / app.delete in registration      *)
(* order.  Express serves a request with the first route whose method and  *)
(* path pattern match; every handler here answers without calling next().  *)
(***************************************************************************)
Routes == <<
    [method |-> "GET", pattern |-> <<"api", "voitures">>,
     handler |-> "GET /api/voitures"],
    [method |-> "GET", pattern |-> <<"api", "voitures", ":id">>,
     handler |-> "GET /api/voitures/:id"],
    [method |-> "POST", pattern |-> <<"api", "voitures">>,
     handler |-> "POST /api/voitures"],
    [method |-> "GET", pattern |-> <<"api", "clients">>,
     handler |-> "GET /api/clients"],
    [method |-> "GET", pattern |-> <<"api", "clients", ":id">>,
     handler |-> "GET /api/clients/:id"],
    [method |-> "GET", pattern |-> <<"api", "proprietaires">>,
     handler |-> "GET /api/proprietaires"],
    [method |-> "GET", pattern |-> <<"api", "proprietaires", ":id">>,
     handler |-> "GET /api/proprietaires/:id"],
    [method |-> "POST", pattern |-> <<"api", "proprietaires">>,
     handler |-> "POST /api/proprietaires"],
    [method |-> "GET", pattern |-> <<"api", "reparations">>,
     handler |-> "GET /api/reparations"],
    [method |-> "GET", pattern |-> <<"api", "reparations", "voiture", ":voitureId">>,
     handler |-> "GET /api/reparations/voiture/:voitureId"],
    [method |-> "GET", pattern |-> <<"api", "reparations", ":id">>,
     handler |-> "GET /api/reparations/:id"],
    [method |-> "POST", pattern |-> <<"api", "reparations">>,
     handler |-> "POST /api/reparations"],
    [method |-> "PUT", pattern |-> <<"api", "reparations", ":id">>,
     handler |-> "PUT /api/reparations/:id"],
    [method |-> "GET", pattern |-> <<"api", "finReparation">>,
     handler |-> "GET /api/finReparation"],
    [method |-> "GET", pattern |-> <<"api", "finReparationPieces">>,
     handler |-> "GET /api/finReparationPieces"],
    [method |-> "GET", pattern |-> <<"api", "finReparationPieces", "reparation", ":reparationId">>,
     handler |-> "GET /api/finReparationPieces/reparation/:reparationId"],
    [method |-> "GET", pattern |-> <<"api", "finReparationPieces", ":id">>,
     handler |-> "GET /api/finReparationPieces/:id"],
    [method |-> "POST", pattern |-> <<"api", "finReparationPieces">>,
     handler |-> "POST /api/finReparationPieces"],
    [method |-> "PUT", pattern |-> <<"api", "finReparationPieces", ":id">>,
     handler |-> "PUT /api/finReparationPieces/:id"],
    [method |-> "DELETE", pattern |-> <<"api", "finReparationPieces", ":id">>,
     handler |-> "DELETE /api/finReparationPieces/:id"],
    [method |-> "DELETE", pattern |-> <<"api", "finReparationPieces">>,
     handler |-> "DELETE /api/finReparationPieces"],
    [method |-> "GET", pattern |-> <<"api", "finReparationPieces", "reset">>,
     handler |-> "GET /api/finReparationPieces/reset"],
    [method |-> "GET", pattern |-> <<"api", "historiquePaiement">>,
     handler |-> "GET /api/historiquePaiement"],
    [method |-> "GET", pattern |-> <<"api", "historiquePaiement", ":id">>,
     handler |-> "GET /api/historiquePaiement/:id"],
    [method |-> "GET", pattern |-> <<"api", "historiquePaiement", "reparation", ":reparationId">>,
     handler |-> "GET /api/historiquePaiement/reparation/:reparationId"],
    [method |-> "GET", pattern |-> <<"api", "historiquePaiement", "client", ":clientId">>,
     handler |-> "GET /api/historiquePaiement/client/:clientId"],
    [method |-> "POST", pattern |-> <<"api", "historiquePaiement">>,
     handler |-> "POST /api/historiquePaiement"],
    [method |-> "PUT", pattern |-> <<"api", "historiquePaiement", ":id">>,
     handler |-> "PUT /api/historiquePaiement/:id"],
    [method |-> "DELETE", pattern |-> <<"api", "historiquePaiement", ":id">>,
     handler |-> "DELETE /api/historiquePaiement/:id"],
    [method |-> "GET", pattern |-> <<"api", "types-voiture">>,
     handler |-> "GET /api/types-voiture"],
    [method |-> "GET", pattern |-> <<"api", "pieces">>,
     handler |-> "GET /api/pieces"],
    [method |-> "GET", pattern |-> <<"api", "pieces", ":id">>,
     handler |-> "GET /api/pieces/:id"],
    [method |-> "GET", pattern |-> <<"api", "typesPieces">>,
     handler |-> "GET /api/typesPieces"],
    [method |-> "GET", pattern |-> <<"api", "typesPieces", ":id">>,
     handler |-> "GET /api/typesPieces/:id"],
    [method |-> "POST", pattern |-> <<"api", "pieces">>,
     handler |-> "POST /api/pieces"],
    [method |-> "PUT", pattern |-> <<"api", "pieces", ":id">>,
     handler |-> "PUT /api/pieces/:id"],
    [method |-> "DELETE", pattern |-> <<"api", "pieces", ":id">>,
     handler |-> "DELETE /api/pieces/:id"],
    [method |-> "POST", pattern |-> <<"api", "typesPieces">>,
     handler |-> "POST /api/typesPieces"],
    [method |-> "GET", pattern |-> <<"api", "slotReparation">>,
     handler |-> "GET /api/slotReparation"],
    [method |-> "GET", pattern |-> <<"api", "slotReparation", ":id">>,
     handler |-> "GET /api/slotReparation/:id"],
    [method |-> "POST", pattern |-> <<"api", "slotReparation">>,
     handler |-> "POST /api/slotReparation"],
    [method |-> "POST", pattern |-> <<"api", "slotReparation", "assign">>,
     handler |-> "POST /api/slotReparation/assign"],
    [method |-> "DELETE", pattern |-> <<"api", "slotReparation", ":id">>,
     handler |-> "DELETE /api/slotReparation/:id"],
    [method |-> "GET", pattern |-> <<"api", "slotAttente">>,
     handler |-> "GET /api/slotAttente"],
    [method |-> "GET", pattern |-> <<"api", "slotAttente", ":id">>,
     handler |-> "GET /api/slotAttente/:id"],
    [method |-> "POST", pattern |-> <<"api", "slotAttente">>,
     handler |-> "POST /api/slotAttente"],
    [method |-> "GET", pattern |-> <<"api", "slotAttente", "reset">>,
     handler |-> "GET /api/slotAttente/reset"],
    [method |-> "DELETE", pattern |-> <<"api", "slotAttente", ":id">>,
     handler |-> "DELETE /api/slotAttente/:id"],
    [method |-> "PUT", pattern |-> <<"api", "reparations", "statut", "en-cours">>,
     handler |-> "PUT /api/reparations/statut/en-cours"],
    [method |-> "GET", pattern |-> <<"api", "reparations", "statut", "en-cours">>,
     handler |-> "GET /api/reparations/statut/en-cours"],
    [method |-> "GET", pattern |-> <<"api", "notifications">>,
     handler |-> "GET /api/notifications"],
    [method |-> "GET", pattern |-> <<"api", "notifications", ":id">>,
     handler |-> "GET /api/notifications/:id"],
    [method |-> "GET", pattern |-> <<"api", "notifications", "voiture", ":voitureId">>,
     handler |-> "GET /api/notifications/voiture/:voitureId"],
    [method |-> "GET", pattern |-> <<"api", "notifications", "unread">>,
     handler |-> "GET /api/notifications/unread"],
    [method |-> "GET", pattern |-> <<"api", "health">>,
     handler |-> "GET /api/health"]
>>

\* A path-pattern segment that binds a parameter.
IsParam(seg) == seg \in {":id", ":voitureId", ":reparationId", ":clientId"}

\* Whether a path (a sequence of segments) matches a route's pattern.
Match(pattern, path) ==
    /\ Len(pattern) = Len(path)
    /\ \A i \in 1..Len(pattern) : IsParam(pattern[i]) \/ pattern[i] = path[i]

\* The index of the first matching route, 0 when none matches.
Dispatch(method, path) ==
    LET hits == {i \in 1..Len(Routes) :
                    Routes[i].method = method /\ Match(Routes[i].pattern, path)}
    IN  IF hits = {} THEN 0
        ELSE CHOOSE i \in hits : \A j \in hits : i <= j

\* The handler that serves a request; the catch-all app.use when no route matches.
Handler(r) ==
    IF Dispatch(r.method, r.path) = 0 THEN "404"
    ELSE Routes[Dispatch(r.method, r.path)].handler

\* req.params: the path segment bound by the pattern's parameter, if any.
Params(r) ==
    LET pattern == Routes[Dispatch(r.method, r.path)].pattern
        at == {i \in 1..Len(pattern) : IsParam(pattern[i])}
    IN  IF Dispatch(r.method, r.path) = 0 \/ at = {} THEN Undefined
        ELSE r.path[CHOOSE i \in at : TRUE]

(***************************************************************************)
(* Slot identities                                                         *)
(***************************************************************************)
\* The list written in descending order.
slotIdsDescending == <<"3", "2", "1">>

\* Liste des slots gérés : 1, 2, 3
slotIds == <<"1", "2", "3">>

\* The positions POST /api/slotAttente tries, in order.
attenteIds == <<"1", "2">>

NoBody == [none |-> Undefined]

(***************************************************************************)
(* Requests                                                                *)
(***************************************************************************)
Request(method, path, body) == [body |-> body, method |-> method, path |-> path]

\* The two references the overlapping callers use.
TwoRefs == {"REP-1", "REP-2"}

AssignCalls(refs) ==
    {Request("POST", <<"api", "slotReparation", "assign">>, [idReparation |-> x]) :
        x \in refs}

AttenteCalls(refs) ==
    {Request("POST", <<"api", "slotAttente">>, [idReparation |-> x, startTime |-> "t"]) :
        x \in refs}

ReleaseCalls ==
    {Request("DELETE", <<"api", "slotReparation", k>>, NoBody) : k \in Range(slotIds)}
    \cup {Request("DELETE", <<"api", "slotAttente", k>>, NoBody) : k \in Range(attenteIds)}

ResetCall == Request("GET", <<"api", "slotAttente", "reset">>, NoBody)

\* The requests of the overlapping callers.
SlotCalls == AssignCalls(TwoRefs) \cup AttenteCalls(TwoRefs) \cup ReleaseCalls

\* The requests of a caller that waits for each answer.
SeqCalls == AssignCalls(Range(RefSeq)) \cup AttenteCalls(Range(RefSeq)) \cup ReleaseCalls

\* A body without field f.
Lacking(body, f) ==
    [g \in (DOMAIN body \ {f}) \cup {"none"} |->
        IF g = "none" THEN Undefined ELSE body[g]]

\* A body with every field and the bodies that lack one of them.
Bodies(full) == {full} \cup {Lacking(full, f) : f \in DOMAIN full}

Post(path, bodies) == {Request("POST", path, b) : b \in bodies}

VoitureCalls ==
    Post(<<"api", "voitures">>,
         Bodies([marque |-> "Clio", proprietaireId |-> "u1", typeId |-> "TV-1"]))

ProprietaireCalls ==
    Post(<<"api", "proprietaires">>,
         Bodies([uid |-> "u1", email |-> "a@b.c", nom |-> "Rabe", prenom |-> "Aina"]))

\* A repair names its vehicle by an object with an _id.
ReparationCalls ==
    Post(<<"api", "reparations">>,
         {[voiture |-> [_id |-> "V1"]], [voiture |-> [marque |-> "Clio"]], NoBody})

FinReparationPiecesCalls ==
    Post(<<"api", "finReparationPieces">>,
         Bodies([reparation |-> "REP-001", piece |-> "PR-001",
                 dateFinReparation |-> "t"]))

HistoriquePaiementCalls ==
    Post(<<"api", "historiquePaiement">>,
         Bodies([reparationId |-> "REP-001", clientId |-> "u1", montant |-> "100",
                 datePaiement |-> "t"]))

\* A part names its type by the id the store gave it: a generated id in the
\* document store, a TP- id in the fallback dataset.
PieceCalls ==
    Post(<<"api", "pieces">>,
         Bodies([nomPieces |-> "Filtre", prix |-> "10", typeId |-> "TP-001"])
         \cup {[nomPieces |-> "Filtre", prix |-> "10", typeId |-> "auto1"]})

TypesPiecesCalls ==
    Post(<<"api", "typesPieces">>, Bodies([nomTypePieces |-> "Moteur"]))

SlotCreateCalls ==
    Post(<<"api", "slotReparation">>, Bodies([idReparation |-> "REP-1", startTime |-> "t"]))
    \cup Post(<<"api", "slotAttente">>, Bodies([idReparation |-> "REP-1", startTime |-> "t"]))
    \cup Post(<<"api", "slotReparation", "assign">>, Bodies([idReparation |-> "REP-1"]))

\* Reads and releases of the first slot of each pool, and the two lists.
SlotReadCalls ==
    {Request(m, <<"api", pool, "1">>, NoBody) :
        m \in {"GET", "DELETE"}, pool \in {"slotReparation", "slotAttente"}}
    \cup {Request("GET", <<"api", pool>>, NoBody) :
             pool \in {"slotReparation", "slotAttente"}}

\* A request for a path no route is registered for.
UnknownCall == Request("GET", <<"api", "inconnu">>, NoBody)

\* An id no entity has.
UnknownId == "X0"

\* The request that reads a whole collection.
ListCalls(base) == {Request("GET", <<"api", base>>, NoBody)}

\* The requests that read one entity: by an id and by the id no entity has.
ByIdCalls(base, id) ==
    {Request("GET", <<"api", base, x>>, NoBody) : x \in {id, UnknownId}}

\* The requests of the caller of the pools that hold documents at start-up.
SeededAssignCalls == AssignCalls({"REP-1"})

SeededAttenteCalls == AttenteCalls({"REP-1"})

AttenteListCalls == ListCalls("slotAttente")

\* The request for the unread notifications.
UnreadCall == Request("GET", <<"api", "notifications", "unread">>, NoBody)

\* The requests that read a filtered list: by a value and by the value no
\* entity holds.
FilterCalls(base, by, value) ==
    {Request("GET", <<"api", base, by, x>>, NoBody) : x \in {value, UnknownId}}

\* The requests that read the entities.
EntityReadCalls ==
    UNION {ListCalls(base) :
              base \in {"voitures", "clients", "proprietaires", "reparations",
                        "finReparationPieces", "historiquePaiement", "types-voiture",
                        "pieces", "typesPieces", "notifications", "health"}}
    \cup ByIdCalls("voitures", "V1") \cup ByIdCalls("clients", "C1")
    \cup ByIdCalls("proprietaires", "P1") \cup ByIdCalls("reparations", "REP-001")
    \cup ByIdCalls("finReparationPieces", "F1")
    \cup ByIdCalls("historiquePaiement", "H1") \cup ByIdCalls("pieces", "PR-001")
    \cup ByIdCalls("typesPieces", "TP-001") \cup ByIdCalls("notifications", "N1")
    \cup FilterCalls("reparations", "voiture", "V1")
    \cup FilterCalls("finReparationPieces", "reparation", "REP-001")
    \cup FilterCalls("historiquePaiement", "reparation", "REP-001")
    \cup FilterCalls("historiquePaiement", "client", "C1")
    \cup FilterCalls("notifications", "voiture", "V1")

\* The body of a part of a type both stores hold.
PieceBody == [nomPieces |-> "Filtre", prix |-> "10", typeId |-> "TP-001"]

\* The creation of a part.
PieceCreateCalls == {Request("POST", <<"api", "pieces">>, PieceBody)}

\* The deletions of the parts a run can hold.
PieceDeleteCalls ==
    {Request("DELETE", <<"api", "pieces", id>>, NoBody) :
        id \in {"PR-001", "PR-002"}}

\* Updates of a part: its name, its type (one that exists and one that does
\* not), and a body without any of the fields.
PieceUpdateCalls ==
    {Request("PUT", <<"api", "pieces", "PR-001">>, b) :
        b \in {[nomPieces |-> "Joint"], [nomPieces |-> "Joint", typeId |-> "TP-001"],
               [nomPieces |-> "Joint", typeId |-> UnknownId], NoBody}}

\* The creation of a part type and of a repair.
TypeCreateCalls == {Request("POST", <<"api", "typesPieces">>, [nomTypePieces |-> "Moteur"])}

ReparationCreateCalls ==
    {Request("POST", <<"api", "reparations">>, [voiture |-> [_id |-> "V1"]])}

\* The creations of a repair two callers send, each with its own description.
OverlapCalls ==
    {Request("POST", <<"api", "reparations">>,
             [voiture |-> [_id |-> "V1"], description |-> d]) : d \in {"A", "B"}}

\* Updates of the status of a repair.
ReparationUpdateCalls ==
    {Request("PUT", <<"api", "reparations", id>>, b) :
        id \in {"REP-001", UnknownId}, b \in {[statut |-> "TERMINE"], NoBody}}

\* The bulk status transition, by either method.
EnCoursCalls ==
    {Request(m, <<"api", "reparations", "statut", "en-cours">>, NoBody) :
        m \in {"PUT", "GET"}}

\* The requests that change entities.
EntityWriteCalls ==
    PieceCreateCalls \cup PieceDeleteCalls \cup PieceUpdateCalls \cup TypeCreateCalls
    \cup ReparationCreateCalls \cup ReparationUpdateCalls \cup EnCoursCalls

\* The requests of the caller that creates entities.
CreateCalls ==
    VoitureCalls \cup ProprietaireCalls \cup ReparationCalls
    \cup FinReparationPiecesCalls \cup HistoriquePaiementCalls \cup PieceCalls
    \cup TypesPiecesCalls \cup SlotCreateCalls \cup SlotReadCalls \cup {UnknownCall}

\* The requests of the caller of the waiting pool: claims, the reset request
\* and the list request.
WaitingCalls ==
    AttenteCalls(Range(RefSeq))
    \cup {ResetCall, Request("GET", <<"api", "slotAttente">>, NoBody)}

AllCalls == SlotCalls \cup SeqCalls \cup WaitingCalls \cup CreateCalls
    \cup EntityReadCalls \cup EntityWriteCalls
    \cup ByIdCalls("finReparationPieces", "reset")
    \cup ByIdCalls("notifications", "unread") \cup OverlapCalls

\* The routing of every such request, worked out once: its handler and its
\* path parameter.
RouteOf == [r \in AllCalls |-> [handler |-> Handler(r), id |-> Params(r)]]

\* The request is served by handler h.
Routed(r, h) == RouteOf[r].handler = h

(***************************************************************************)
(* The document store (Firestore).  A collection is a function from the    *)
(* ids of its documents to their data.                                     *)
(***************************************************************************)
\* Fields of `new` laid over those of `old`: set(data, { merge: true }).
Merge(old, new) ==
    [f \in DOMAIN old \cup DOMAIN new |-> IF f \in DOMAIN new THEN new[f] ELSE old[f]]

\* doc(id).get(): a snapshot with its `exists` flag and the data read.
DocGet(col, id) ==
    IF id \in DOMAIN col
    THEN [exists |-> TRUE, id |-> id, data |-> col[id]]
    ELSE [exists |-> FALSE, id |-> id, data |-> [idReparation |-> Undefined]]

\* DocSet that leaves an existing document as it is (first writer wins).
DocSetIfAbsent(col, id, data) ==
    [k \in DOMAIN col \cup {id} |-> IF k \in DOMAIN col THEN col[k] ELSE data]

\* doc(id).set(data): creates the document or replaces it.
DocSet(col, id, data) ==
    [k \in DOMAIN col \cup {id} |-> IF k = id THEN data ELSE col[k]]

\* doc(id).set(data, { merge: true }): creates the document or merges into it.
DocSetMerge(col, id, data) ==
    DocSet(col, id, IF id \in DOMAIN col THEN Merge(col[id], data) ELSE data)

\* doc(id).delete(): removes the document; deleting a missing one succeeds.
DocDelete(col, id) == [k \in DOMAIN col \ {id} |-> col[k]]

\* batch.delete(ref) for each ref, then batch.commit(): all removed at once.
BatchDelete(col, ids) == [k \in DOMAIN col \ ids |-> col[k]]

\* The id collection.add() generates: one no document of the collection has.
GeneratedId(col) ==
    AutoSeq[CHOOSE i \in 1..Len(AutoSeq) :
                /\ AutoSeq[i] \notin DOMAIN col
                /\ \A j \in 1..(i - 1) : AutoSeq[j] \in DOMAIN col]

\* Whether collection.add() still has an unused generated id within the bound.
CanAdd(col) == \E i \in 1..Len(AutoSeq) : AutoSeq[i] \notin DOMAIN col

\* collection.get(): the snapshot of every document of the collection.
CollectionGet(col) == col

\* collection.listDocuments(): the references of every document.
ListDocuments(col) == DOMAIN col

(***************************************************************************)
(* Requests in flight                                                      *)
(***************************************************************************)
Procs == {1, 2}

NoRequest == [method |-> "", path |-> <<>>, body |-> NoBody]
NoSnap == [exists |-> FALSE, id |-> Undefined, data |-> [idReparation |-> Undefined]]

\* A request slot that handles nothing.
Idle == [request |-> NoRequest, handler |-> "", pc |-> "idle",
         i |-> 0, snap |-> NoSnap, docs |-> {}, ops |-> 0,
         doc |-> NoSnap, col |-> "", newId |-> Undefined]

\* res.status(s).json(...): the fields the handlers of this module send.
Resp(status) ==
    [status |-> status, error |-> "", id |-> Undefined, slotNumber |-> 0,
     idReparation |-> Undefined, deleted |-> -1, list |-> {}, count |-> -1,
     dataAvailable |-> [none |-> 0], modified |-> -1]

Err(status, message) == [Resp(status) EXCEPT !.error = message]

NoResponse == Resp(0)

\* The request slot is free: no request is between its arrival and its answer.
Free(p) == req[p].pc \in {"idle", "done"}

\* The handler answers: the request is done.
Answer(p, r, h, response, ops) ==
    /\ req' = [req EXCEPT ![p] = [Idle EXCEPT !.request = r, !.handler = h,
                                               !.pc = "done", !.ops = ops]]
    /\ res' = [res EXCEPT ![p] = response]

\* The handler suspends at an await with its locals.
Await(p, r, h, pc, i, snap, docs, ops) ==
    /\ req' = [req EXCEPT ![p] = [Idle EXCEPT !.request = r, !.handler = h,
                                               !.pc = pc, !.i = i, !.snap = snap,
                                               !.docs = docs, !.ops = ops]]
    /\ res' = [res EXCEPT ![p] = NoResponse]

\* A suspended handler answers.
Finish(p, response) ==
    /\ req' = [req EXCEPT ![p] = [Idle EXCEPT !.request = req[p].request,
                                               !.handler = req[p].handler,
                                               !.pc = "done",
                                               !.ops = req[p].ops]]
    /\ res' = [res EXCEPT ![p] = response]

\* A suspended handler goes on to its next await.
Resume(p, pc, i, snap, docs) ==
    /\ req' = [req EXCEPT ![p].pc = pc, ![p].i = i, ![p].snap = snap,
                          ![p].docs = docs, ![p].ops = @ + 1]
    /\ UNCHANGED res

\* Number(slotId) of a canonical slot id.
Number(s) == CASE s = "1" -> 1 [] s = "2" -> 2 [] s = "3" -> 3 [] OTHER -> 0

(***************************************************************************)
(* Slot pools                                                              *)
(***************************************************************************)
\* data.idReparation || ''
CurrentRep(data) ==
    IF "idReparation" \in DOMAIN data /\ data.idReparation # Undefined
    THEN data.idReparation ELSE ""

\* The scan's test on a snapshot of the repair pool: the slot is free.
RepairSlotFree(snap) == ~snap.exists \/ ~Truthy(CurrentRep(snap.data))

\* The test on a snapshot of the waiting pool: the position is free.
AttenteSlotFree(snap) == ~snap.exists

\* GET /api/slotReparation and GET /api/slotAttente, up to the first await.
SlotList(p, r, pool) ==
    /\ Free(p)
    /\ IF useFirebase
       THEN Await(p, r, RouteOf[r].handler, "listed", 0, NoSnap, CollectionGet(db[pool]), 1)
       ELSE Answer(p, r, RouteOf[r].handler, Resp(200), 0)
    /\ UNCHANGED <<useFirebase, db, seedData, seedFile>>

GetSlotReparation(p, r) == SlotList(p, r, "slotReparation")

GetSlotAttente(p, r) == SlotList(p, r, "slotAttente")

\* After collection.get(): every document but `_metadata` is sent.
SlotListed(p) ==
    /\ req[p].pc = "listed"
    /\ req[p].handler \in {"GET /api/slotReparation", "GET /api/slotAttente"}
    /\ Finish(p, [Resp(200) EXCEPT !.list =
                     {[id |-> k, data |-> req[p].docs[k]] :
                          k \in DOMAIN req[p].docs \ {"_metadata"}}])
    /\ UNCHANGED <<useFirebase, db, seedData, seedFile>>

\* GET /api/slotReparation/:id and GET /api/slotAttente/:id, up to the await.
SlotGetById(p, r, pool) ==
    /\ Free(p)
    /\ IF useFirebase
       THEN Await(p, r, RouteOf[r].handler, "got", 0, DocGet(db[pool], RouteOf[r].id), {}, 1)
       ELSE Answer(p, r, RouteOf[r].handler, Err(400, "Firebase non disponible"), 0)
    /\ UNCHANGED <<useFirebase, db, seedData, seedFile>>

GetSlotReparationById(p, r) == SlotGetById(p, r, "slotReparation")

GetSlotAttenteById(p, r) == SlotGetById(p, r, "slotAttente")

\* After doc(id).get(): 404 when the document does not exist.
SlotGot(p) ==
    /\ req[p].pc = "got"
    /\ req[p].handler \in {"GET /api/slotReparation/:id", "GET /api/slotAttente/:id"}
    /\ IF ~req[p].snap.exists
       THEN Finish(p, Err(404, "Slot non trouvé"))
       ELSE Finish(p, [Resp(200) EXCEPT
                          !.id = req[p].snap.id,
                          !.idReparation = CurrentRep(req[p].snap.data)])
    /\ UNCHANGED <<useFirebase, db, seedData, seedFile>>

\* POST /api/slotReparation: adds a slot document under a generated id.
PostSlotReparation(p, r) ==
    /\ Free(p)
    /\ IF ~Truthy(Field(r.body, "idReparation")) \/ ~Truthy(Field(r.body, "startTime"))
       THEN /\ Answer(p, r, RouteOf[r].handler,
                      Err(400, "idReparation et startTime sont requis"), 0)
            /\ UNCHANGED db
       ELSE IF useFirebase
       THEN /\ CanAdd(db.slotReparation)
            /\ db' = [db EXCEPT !.slotReparation =
                         DocSet(@, GeneratedId(@),
                                [idReparation |-> r.body.idReparation])]
            /\ Await(p, r, RouteOf[r].handler, "added", 0,
                     [NoSnap EXCEPT !.id = GeneratedId(db.slotReparation)], {}, 1)
       ELSE /\ Answer(p, r, RouteOf[r].handler, Err(400, "Firebase non disponible"), 0)
            /\ UNCHANGED db
    /\ UNCHANGED <<useFirebase, seedData, seedFile>>

\* After collection.add(): the generated id is sent.
SlotAdded(p) ==
    /\ req[p].pc = "added"
    /\ req[p].handler = "POST /api/slotReparation"
    /\ Finish(p, [Resp(200) EXCEPT !.id = req[p].snap.id])
    /\ UNCHANGED <<useFirebase, db, seedData, seedFile>>

\* POST /api/slotReparation/assign, up to the read of the first slot.
PostSlotReparationAssign(p, r) ==
    /\ Free(p)
    /\ IF ~Truthy(Field(r.body, "idReparation"))
       THEN Answer(p, r, RouteOf[r].handler, Err(400, "idReparation est requis"), 0)
       ELSE IF ~useFirebase
       THEN Answer(p, r, RouteOf[r].handler, Err(400, "Firebase non disponible"), 0)
       ELSE Await(p, r, RouteOf[r].handler, "scan", 1,
                  DocGet(db.slotReparation, slotIds[1]), {}, 1)
    /\ UNCHANGED <<useFirebase, db, seedData, seedFile>>

\* The loop without its `break`: it reads every slot, keeps the last free one
\* (in `docs`) and writes it after the last read.
AssignScanNoBreak(p) ==
    /\ req[p].pc = "scan"
    /\ req[p].handler = "POST /api/slotReparation/assign"
    /\ LET chosen == IF RepairSlotFree(req[p].snap) THEN {req[p].i} ELSE req[p].docs
       IN  IF req[p].i < Len(slotIds)
           THEN /\ Resume(p, "scan", req[p].i + 1,
                          DocGet(db.slotReparation, slotIds[req[p].i + 1]), chosen)
                /\ UNCHANGED db
           ELSE IF chosen = {}
           THEN /\ Finish(p, Err(400, "Les trois slots sont déjà occupés"))
                /\ UNCHANGED db
           ELSE /\ db' = [db EXCEPT !.slotReparation =
                             DocSetMerge(@, slotIds[CHOOSE n \in chosen : TRUE],
                                 [idReparation |-> req[p].request.body.idReparation])]
                /\ Resume(p, "set", CHOOSE n \in chosen : TRUE, req[p].snap, {})
    /\ UNCHANGED <<useFirebase, seedData, seedFile>>

\* The loop body after slotRef.get(): a free slot is written (merge), an
\* occupied one makes the loop read the next slot, and after the last slot
\* the request fails.
AssignScan(p) ==
    /\ req[p].pc = "scan"
    /\ req[p].handler = "POST /api/slotReparation/assign"
    /\ IF RepairSlotFree(req[p].snap)
       THEN /\ db' = [db EXCEPT !.slotReparation =
                         DocSetMerge(@, slotIds[req[p].i],
                                     [idReparation |-> req[p].request.body.idReparation])]
            /\ Resume(p, "set", req[p].i, req[p].snap, {})
       ELSE IF req[p].i < Len(slotIds)
       THEN /\ Resume(p, "scan", req[p].i + 1,
                      DocGet(db.slotReparation, slotIds[req[p].i + 1]), {})
            /\ UNCHANGED db
       ELSE /\ Finish(p, Err(400, "Les trois slots sont déjà occupés"))
            /\ UNCHANGED db
    /\ UNCHANGED <<useFirebase, seedData, seedFile>>

\* After chosenSlotRef.set(): the chosen slot is sent.
AssignSet(p) ==
    /\ req[p].pc = "set"
    /\ req[p].handler = "POST /api/slotReparation/assign"
    /\ Finish(p, [Resp(200) EXCEPT
                     !.slotNumber = Number(slotIds[req[p].i]),
                     !.id = slotIds[req[p].i],
                     !.idReparation = req[p].request.body.idReparation])
    /\ UNCHANGED <<useFirebase, db, seedData, seedFile>>

\* The message of the error a rejected document-store call carries.
StoreError == "store unavailable"

\* POST /api/slotReparation/assign when the read of the first slot rejects:
\* the catch answers 500 with the message of the error.
AssignGetThrows(p, r) ==
    /\ Free(p)
    /\ Truthy(Field(r.body, "idReparation"))
    /\ useFirebase
    /\ Answer(p, r, RouteOf[r].handler, Err(500, StoreError), 1)
    /\ UNCHANGED <<useFirebase, db, seedData, seedFile>>

\* The call the loop issues next (the read of the next slot, or the write of
\* the chosen one) rejects: nothing is written, the catch answers 500.
AssignCallThrows(p) ==
    /\ req[p].pc = "scan"
    /\ req[p].handler = "POST /api/slotReparation/assign"
    /\ RepairSlotFree(req[p].snap) \/ req[p].i < Len(slotIds)
    /\ Finish(p, Err(500, StoreError))
    /\ UNCHANGED <<useFirebase, db, seedData, seedFile>>

\* The release with an existence check: a missing document is answered 404.
SlotDeleteChecked(p, r, pool) ==
    /\ Free(p)
    /\ IF useFirebase /\ RouteOf[r].id \in DOMAIN db[pool]
       THEN /\ db' = [db EXCEPT ![pool] = DocDelete(@, RouteOf[r].id)]
            /\ Await(p, r, RouteOf[r].handler, "deleted", 0, NoSnap, {}, 1)
       ELSE IF useFirebase
       THEN /\ Answer(p, r, RouteOf[r].handler, Err(404, "Slot non trouvé"), 0)
            /\ UNCHANGED db
       ELSE /\ Answer(p, r, RouteOf[r].handler, Err(400, "Firebase non disponible"), 0)
            /\ UNCHANGED db
    /\ UNCHANGED <<useFirebase, seedData, seedFile>>

\* DELETE /api/slotReparation/:id and DELETE /api/slotAttente/:id.
SlotDelete(p, r, pool) ==
    /\ Free(p)
    /\ IF useFirebase
       THEN /\ db' = [db EXCEPT ![pool] = DocDelete(@, RouteOf[r].id)]
            /\ Await(p, r, RouteOf[r].handler, "deleted", 0, NoSnap, {}, 1)
       ELSE /\ Answer(p, r, RouteOf[r].handler, Err(400, "Firebase non disponible"), 0)
            /\ UNCHANGED db
    /\ UNCHANGED <<useFirebase, seedData, seedFile>>

DeleteSlotReparation(p, r) == SlotDelete(p, r, "slotReparation")

\* The waiting-pool release with the collection name of the repair pool.
DeleteSlotAttenteCopied(p, r) == SlotDelete(p, r, "slotReparation")

DeleteSlotAttente(p, r) == SlotDelete(p, r, "slotAttente")

\* After doc(id).delete(): success is sent.
SlotDeleted(p) ==
    /\ req[p].pc = "deleted"
    /\ req[p].handler \in {"DELETE /api/slotReparation/:id", "DELETE /api/slotAttente/:id"}
    /\ Finish(p, Resp(200))
    /\ UNCHANGED <<useFirebase, db, seedData, seedFile>>

\* POST /api/slotAttente, up to the read of position 1.
PostSlotAttente(p, r) ==
    /\ Free(p)
    /\ IF ~Truthy(Field(r.body, "idReparation")) \/ ~Truthy(Field(r.body, "startTime"))
       THEN Answer(p, r, RouteOf[r].handler, Err(400, "idReparation et startTime sont requis"), 0)
       ELSE IF ~useFirebase
       THEN Answer(p, r, RouteOf[r].handler, Err(400, "Firebase non disponible"), 0)
       ELSE Await(p, r, RouteOf[r].handler, "slot1Snap", 1,
                  DocGet(db.slotAttente, attenteIds[1]), {}, 1)
    /\ UNCHANGED <<useFirebase, db, seedData, seedFile>>

\* { ...baseData, slotId: n }
AttenteData(r, n) == [idReparation |-> r.body.idReparation, slotId |-> n]

\* After slot1Ref.get(): position 1 is written when its document does not
\* exist, otherwise position 2 is read.
Slot1Snap(p) ==
    /\ req[p].pc = "slot1Snap"
    /\ IF AttenteSlotFree(req[p].snap)
       THEN /\ db' = [db EXCEPT !.slotAttente =
                         DocSet(@, attenteIds[1], AttenteData(req[p].request, 1))]
            /\ Resume(p, "slotSet", 1, req[p].snap, {})
       ELSE /\ Resume(p, "slot2Snap", 2, DocGet(db.slotAttente, attenteIds[2]), {})
            /\ UNCHANGED db
    /\ UNCHANGED <<useFirebase, seedData, seedFile>>

\* Slot2Snap without the test of the second document: position 2 is always
\* written.
Slot2SnapOverwrite(p) ==
    /\ req[p].pc = "slot2Snap"
    /\ db' = [db EXCEPT !.slotAttente =
                 DocSet(@, attenteIds[2], AttenteData(req[p].request, 2))]
    /\ Resume(p, "slotSet", 2, req[p].snap, {})
    /\ UNCHANGED <<useFirebase, seedData, seedFile>>

\* After slot2Ref.get(): position 2 is written when its document does not
\* exist, otherwise the request fails with 409.
Slot2Snap(p) ==
    /\ req[p].pc = "slot2Snap"
    /\ IF AttenteSlotFree(req[p].snap)
       THEN /\ db' = [db EXCEPT !.slotAttente =
                         DocSet(@, attenteIds[2], AttenteData(req[p].request, 2))]
            /\ Resume(p, "slotSet", 2, req[p].snap, {})
       ELSE /\ Finish(p, Err(409, "Aucun slot d'attente disponible (1 et 2 déjà occupés)"))
            /\ UNCHANGED db
    /\ UNCHANGED <<useFirebase, seedData, seedFile>>

\* After slotNRef.set(): the position is sent.
SlotSet(p) ==
    /\ req[p].pc = "slotSet"
    /\ req[p].handler = "POST /api/slotAttente"
    /\ Finish(p, [Resp(200) EXCEPT
                     !.id = attenteIds[req[p].i],
                     !.slotNumber = req[p].i])
    /\ UNCHANGED <<useFirebase, db, seedData, seedFile>>

\* GET /api/slotAttente/reset, up to colRef.listDocuments().
GetSlotAttenteReset(p, r) ==
    /\ Free(p)
    /\ IF ~useFirebase
       THEN Answer(p, r, "GET /api/slotAttente/reset",
                   Err(400, "Firebase non disponible"), 0)
       ELSE Await(p, r, "GET /api/slotAttente/reset", "resetListed", 0, NoSnap,
                  ListDocuments(db.slotAttente), 1)
    /\ UNCHANGED <<useFirebase, db, seedData, seedFile>>

\* ResetListed with a batch over every document the collection holds at the
\* commit instead of the documents listed.
ResetListedAtCommit(p) ==
    /\ req[p].pc = "resetListed"
    /\ IF Cardinality(req[p].docs) = 0
       THEN /\ Finish(p, [Resp(200) EXCEPT !.deleted = 0])
            /\ UNCHANGED db
       ELSE /\ db' = [db EXCEPT !.slotAttente = BatchDelete(@, DOMAIN @)]
            /\ Resume(p, "resetCommitted", 0, NoSnap, req[p].docs)
    /\ UNCHANGED <<useFirebase, seedData, seedFile>>

\* After listDocuments(): nothing listed is answered at once, otherwise the
\* listed documents are deleted in one batch.
ResetListed(p) ==
    /\ req[p].pc = "resetListed"
    /\ IF Cardinality(req[p].docs) = 0
       THEN /\ Finish(p, [Resp(200) EXCEPT !.deleted = 0])
            /\ UNCHANGED db
       ELSE /\ db' = [db EXCEPT !.slotAttente = BatchDelete(@, req[p].docs)]
            /\ Resume(p, "resetCommitted", 0, NoSnap, req[p].docs)
    /\ UNCHANGED <<useFirebase, seedData, seedFile>>

\* After batch.commit(): the number of listed documents is sent.
ResetCommitted(p) ==
    /\ req[p].pc = "resetCommitted"
    /\ Finish(p, [Resp(200) EXCEPT !.deleted = Cardinality(req[p].docs)])
    /\ UNCHANGED <<useFirebase, db, seedData, seedFile>>

(***************************************************************************)
(* Entities                                                                *)
(***************************************************************************)
\* res.status(400).json({ error: 'Firebase non disponible' })
Unavailable == Err(400, "Firebase non disponible")

\* A collection of the fallback dataset: seedData.name || []
SeedList(data, name) == IF name \in DOMAIN data THEN data[name] ELSE <<>>

\* seedData.name = list
SeedPut(data, name, list) ==
    [k \in DOMAIN data \cup {name} |-> IF k = name THEN list ELSE data[k]]

\* fs.writeFileSync(seedDataPath, JSON.stringify(seedData)) inside try/catch:
\* the file takes the dataset, or keeps its content when the write throws.
WriteFile(data) == seedFile' \in {data, seedFile}

\* The handler suspends after writing document id of collection col.
Created(p, r, col, id, ops) ==
    /\ req' = [req EXCEPT ![p] = [Idle EXCEPT !.request = r,
                                               !.handler = RouteOf[r].handler,
                                               !.pc = "created", !.col = col,
                                               !.newId = id, !.ops = ops]]
    /\ res' = [res EXCEPT ![p] = NoResponse]

\* After the write of a created document: the document is read back.
CreatedGet(p) ==
    /\ req[p].pc = "created"
    /\ req' = [req EXCEPT ![p].pc = "read",
                          ![p].snap = DocGet(db[req[p].col], req[p].newId),
                          ![p].ops = @ + 1]
    /\ UNCHANGED <<useFirebase, db, seedData, seedFile, res>>

\* res.json({ _id: doc.id, ...doc.data() })
CreatedRead(p) ==
    /\ req[p].pc = "read"
    /\ Finish(p, [Resp(200) EXCEPT !.id = req[p].snap.id])
    /\ UNCHANGED <<useFirebase, db, seedData, seedFile>>

\* POST /api/voitures, up to the read of the owner.
PostVoitures(p, r) ==
    /\ Free(p)
    /\ IF \/ ~Truthy(Field(r.body, "marque"))
          \/ ~Truthy(Field(r.body, "proprietaireId"))
          \/ ~Truthy(Field(r.body, "typeId"))
       THEN Answer(p, r, RouteOf[r].handler,
                   Err(400, "marque, proprietaireId et typeId sont requis"), 0)
       ELSE IF useFirebase
       THEN Await(p, r, RouteOf[r].handler, "propDoc", 0,
                  DocGet(db.proprietaires, r.body.proprietaireId), {}, 1)
       ELSE Answer(p, r, RouteOf[r].handler, Unavailable, 0)
    /\ UNCHANGED <<useFirebase, db, seedData, seedFile>>

\* After the read of the owner: the vehicle type is read.
VoiturePropDoc(p) ==
    /\ req[p].pc = "propDoc"
    /\ req' = [req EXCEPT ![p].pc = "typeDoc",
                          ![p].doc = req[p].snap,
                          ![p].snap = DocGet(db.typesVoiture, req[p].request.body.typeId),
                          ![p].ops = @ + 1]
    /\ UNCHANGED <<useFirebase, db, seedData, seedFile, res>>

\* After the read of the type: 404 when the owner or the type is missing,
\* otherwise the vehicle is added under a generated id.
VoitureTypeDoc(p) ==
    /\ req[p].pc = "typeDoc"
    /\ IF ~req[p].doc.exists
       THEN /\ Finish(p, Err(404, "Propriétaire non trouvé"))
            /\ UNCHANGED db
       ELSE IF ~req[p].snap.exists
       THEN /\ Finish(p, Err(404, "Type de voiture non trouvé"))
            /\ UNCHANGED db
       ELSE /\ CanAdd(db.voitures)
            /\ db' = [db EXCEPT !.voitures =
                         DocSet(@, GeneratedId(@),
                                [marque |-> req[p].request.body.marque,
                                 proprietaire |->
                                     [_id |-> req[p].request.body.proprietaireId,
                                      nom |-> req[p].doc.data.nom,
                                      prenom |-> req[p].doc.data.prenom],
                                 type |->
                                     [_id |-> req[p].request.body.typeId,
                                      nomType |-> req[p].snap.data.nomType],
                                 reparations |-> <<>>])]
            /\ req' = [req EXCEPT ![p].pc = "created", ![p].col = "voitures",
                                  ![p].newId = GeneratedId(db.voitures),
                                  ![p].ops = @ + 1]
            /\ UNCHANGED res
    /\ UNCHANGED <<useFirebase, seedData, seedFile>>

\* POST /api/proprietaires without the test of the mode.
PostProprietairesAnyMode(p, r) ==
    /\ Free(p)
    /\ IF \/ ~Truthy(Field(r.body, "uid")) \/ ~Truthy(Field(r.body, "email"))
          \/ ~Truthy(Field(r.body, "nom")) \/ ~Truthy(Field(r.body, "prenom"))
       THEN /\ Answer(p, r, RouteOf[r].handler,
                      Err(400, "uid, email, nom et prenom sont requis"), 0)
            /\ UNCHANGED db
       ELSE /\ db' = [db EXCEPT !.proprietaires =
                         DocSet(@, r.body.uid,
                                [email |-> r.body.email, nom |-> r.body.nom,
                                 prenom |-> r.body.prenom, voitures |-> <<>>])]
            /\ Created(p, r, "proprietaires", r.body.uid, 1)
    /\ UNCHANGED <<useFirebase, seedData, seedFile>>

\* POST /api/proprietaires, up to the write of the owner under its uid.
PostProprietaires(p, r) ==
    /\ Free(p)
    /\ IF \/ ~Truthy(Field(r.body, "uid")) \/ ~Truthy(Field(r.body, "email"))
          \/ ~Truthy(Field(r.body, "nom")) \/ ~Truthy(Field(r.body, "prenom"))
       THEN /\ Answer(p, r, RouteOf[r].handler,
                      Err(400, "uid, email, nom et prenom sont requis"), 0)
            /\ UNCHANGED db
       ELSE IF useFirebase
       THEN /\ db' = [db EXCEPT !.proprietaires =
                         DocSet(@, r.body.uid,
                                [email |-> r.body.email, nom |-> r.body.nom,
                                 prenom |-> r.body.prenom, voitures |-> <<>>])]
            /\ Created(p, r, "proprietaires", r.body.uid, 1)
       ELSE /\ Answer(p, r, RouteOf[r].handler, Unavailable, 0)
            /\ UNCHANGED db
    /\ UNCHANGED <<useFirebase, seedData, seedFile>>

\* The largest number that follows 'REP-' in the given ids, 0 without any.
RECURSIVE MaxRepId(_, _)
MaxRepId(ids, max) ==
    IF Len(ids) = 0
    THEN max
    ELSE LET num == ParseInt(Replace(Head(ids), "REP-"))
         IN  MaxRepId(Tail(ids),
                      IF StartsWith(Head(ids), "REP-") /\ GreaterThan(num, max)
                      THEN num.value ELSE max)

\* `REP-${String(maxId + 1).padStart(3, '0')}`
RepId(maxId) == "REP-" \o PadStart(String(maxId + 1), 3, "0")

\* The documents of a collection, in the order of their ids.
RECURSIVE DocIds(_)
DocIds(ids) ==
    IF ids = {}
    THEN <<>>
    ELSE LET id == CHOOSE x \in ids : TRUE
         IN  <<id>> \o DocIds(ids \ {id})

\* The fields of a new repair.
Reparation(body, newId) ==
    [_id |-> newId,
     voiture |-> body.voiture,
     pieces |-> Or(Field(body, "pieces"), <<>>),
     statut |-> Or(Field(body, "statut"), "EN_ATTENTE"),
     description |-> Or(Field(body, "description"), "")]

\* if (!voiture || !voiture._id)
NoVoiture(body) ==
    \/ "voiture" \notin DOMAIN body
    \/ ~Truthy(Field(body.voiture, "_id"))

\* POST /api/reparations: up to the read of the collection in document-store
\* mode, the whole handler in fallback mode.
PostReparations(p, r) ==
    /\ Free(p)
    /\ IF NoVoiture(r.body)
       THEN /\ Answer(p, r, RouteOf[r].handler,
                      Err(400, "Le champ voiture avec _id est requis"), 0)
            /\ UNCHANGED <<seedData, seedFile>>
       ELSE IF useFirebase
       THEN /\ Await(p, r, RouteOf[r].handler, "reparationsSnapshot", 0, NoSnap,
                     CollectionGet(db.reparations), 1)
            /\ UNCHANGED <<seedData, seedFile>>
       ELSE LET reparations == SeedList(seedData, "reparations")
                newId == RepId(MaxRepId([k \in 1..Len(reparations) |->
                                            Or(Field(reparations[k], "_id"), "")], 0))
            IN  /\ seedData' = SeedPut(seedData, "reparations",
                                       Append(reparations, Reparation(r.body, newId)))
                /\ WriteFile(seedData')
                /\ Answer(p, r, RouteOf[r].handler, [Resp(200) EXCEPT !.id = newId], 0)
    /\ UNCHANGED <<useFirebase, db>>

\* After the read of the collection: the repair is written under the id that
\* follows the largest REP- number read.
ReparationsSnapshot(p) ==
    /\ req[p].pc = "reparationsSnapshot"
    /\ LET newId == RepId(MaxRepId(DocIds(DOMAIN req[p].docs), 0))
       IN  /\ db' = [db EXCEPT !.reparations =
                        DocSet(@, newId, Reparation(req[p].request.body, newId))]
           /\ req' = [req EXCEPT ![p].pc = "created", ![p].col = "reparations",
                                 ![p].newId = newId, ![p].docs = {},
                                 ![p].ops = @ + 1]
    /\ UNCHANGED <<useFirebase, seedData, seedFile, res>>

\* POST /api/finReparationPieces, up to the add of the completion.
PostFinReparationPieces(p, r) ==
    /\ Free(p)
    /\ IF \/ ~Truthy(Field(r.body, "reparation")) \/ ~Truthy(Field(r.body, "piece"))
          \/ ~Truthy(Field(r.body, "dateFinReparation"))
       THEN /\ Answer(p, r, RouteOf[r].handler,
                      Err(400, "reparation, piece et dateFinReparation sont requis"), 0)
            /\ UNCHANGED db
       ELSE IF useFirebase
       THEN /\ CanAdd(db.finReparationPieces)
            /\ db' = [db EXCEPT !.finReparationPieces =
                         DocSet(@, GeneratedId(@),
                                [reparation |-> r.body.reparation,
                                 piece |-> r.body.piece])]
            /\ Created(p, r, "finReparationPieces",
                       GeneratedId(db.finReparationPieces), 1)
       ELSE /\ Answer(p, r, RouteOf[r].handler, Unavailable, 0)
            /\ UNCHANGED db
    /\ UNCHANGED <<useFirebase, seedData, seedFile>>

\* POST /api/historiquePaiement, up to the add of the payment.
PostHistoriquePaiement(p, r) ==
    /\ Free(p)
    /\ IF \/ ~Truthy(Field(r.body, "reparationId")) \/ ~Truthy(Field(r.body, "clientId"))
          \/ ~Truthy(Field(r.body, "montant")) \/ ~Truthy(Field(r.body, "datePaiement"))
       THEN /\ Answer(p, r, RouteOf[r].handler,
                      Err(400, "reparationId, clientId, montant et datePaiement sont requis"), 0)
            /\ UNCHANGED db
       ELSE IF useFirebase
       THEN /\ CanAdd(db.historiquePaiement)
            /\ db' = [db EXCEPT !.historiquePaiement =
                         DocSet(@, GeneratedId(@),
                                [reparationId |-> r.body.reparationId,
                                 clientId |-> r.body.clientId,
                                 montant |-> r.body.montant,
                                 methode |-> Or(Field(r.body, "methode"), "especes"),
                                 statut |-> Or(Field(r.body, "statut"), "validé"),
                                 notes |-> Or(Field(r.body, "notes"), ""),
                                 numReference |-> Or(Field(r.body, "numReference"), "")])]
            /\ Created(p, r, "historiquePaiement",
                       GeneratedId(db.historiquePaiement), 1)
       ELSE /\ Answer(p, r, RouteOf[r].handler, Unavailable, 0)
            /\ UNCHANGED db
    /\ UNCHANGED <<useFirebase, seedData, seedFile>>

\* parseFloat(s) of a text without sign, fraction or exponent.
ParseFloat(s) == ParseInt(s)

\* The id without the padding: `PR-${count}`
PieceIdUnpadded(count) == "PR-" \o String(count)

\* `PR-${String(count).padStart(3, '0')}`
PieceId(count) == "PR-" \o PadStart(String(count), 3, "0")

\* `TP-${String(count).padStart(3, '0')}`
TypePieceId(count) == "TP-" \o PadStart(String(count), 3, "0")

\* (seedData.typesPieces || []).find(t => t._id === typeId): the positions
\* of the types with that id.
FindType(types, typeId) == {k \in 1..Len(types) : types[k]._id = typeId}

\* The test of the body of a part without the price.
PieceInvalidNoPrix(body) ==
    \/ ~Truthy(Field(body, "nomPieces"))
    \/ ~Truthy(Field(body, "typeId"))

\* if (!nomPieces || !prix || !typeId)
PieceInvalid(body) ==
    \/ ~Truthy(Field(body, "nomPieces"))
    \/ ~Truthy(Field(body, "prix"))
    \/ ~Truthy(Field(body, "typeId"))

\* POST /api/pieces: up to the read of the part type in document-store mode,
\* the whole handler in fallback mode.
PostPieces(p, r) ==
    /\ Free(p)
    /\ IF PieceInvalid(r.body)
       THEN /\ Answer(p, r, RouteOf[r].handler,
                      Err(400, "nomPieces, prix et typeId sont requis"), 0)
            /\ UNCHANGED <<seedData, seedFile>>
       ELSE IF useFirebase
       THEN /\ Await(p, r, RouteOf[r].handler, "pieceTypeDoc", 0,
                     DocGet(db.typesPieces, r.body.typeId), {}, 1)
            /\ UNCHANGED <<seedData, seedFile>>
       ELSE LET pieces == SeedList(seedData, "piecesReparables")
                types == SeedList(seedData, "typesPieces")
                found == FindType(types, r.body.typeId)
                newId == PieceId(Len(pieces) + 1)
            IN  IF found = {}
                THEN /\ Answer(p, r, RouteOf[r].handler,
                               Err(404, "Type de pièce non trouvé"), 0)
                     /\ UNCHANGED <<seedData, seedFile>>
                ELSE /\ seedData' =
                            SeedPut(seedData, "piecesReparables",
                                    Append(pieces,
                                           [_id |-> newId,
                                            nomPieces |-> r.body.nomPieces,
                                            prix |-> ParseFloat(Field(r.body, "prix")),
                                            type |->
                                                [_id |-> r.body.typeId,
                                                 nomTypePieces |->
                                                     types[CHOOSE k \in found :
                                                               \A j \in found : k <= j]
                                                         .nomTypePieces]]))
                     /\ WriteFile(seedData')
                     /\ Answer(p, r, RouteOf[r].handler,
                               [Resp(200) EXCEPT !.id = newId], 0)
    /\ UNCHANGED <<useFirebase, db>>

\* After the read of the part type: 404 when it is missing, otherwise the
\* collection of parts is read.
PieceTypeDoc(p) ==
    /\ req[p].pc = "pieceTypeDoc"
    /\ IF ~req[p].snap.exists
       THEN Finish(p, Err(404, "Type de pièce non trouvé"))
       ELSE Resume(p, "piecesSnapshot", 0, req[p].snap,
                   CollectionGet(db.piecesReparables))
    /\ UNCHANGED <<useFirebase, db, seedData, seedFile>>

\* After the read of the collection: the part is written under the id made
\* of the number of parts read plus one.
PiecesSnapshot(p) ==
    /\ req[p].pc = "piecesSnapshot"
    /\ LET newId == PieceId(Cardinality(DOMAIN req[p].docs) + 1)
       IN  /\ db' = [db EXCEPT !.piecesReparables =
                        DocSet(@, newId,
                               [nomPieces |-> req[p].request.body.nomPieces,
                                prix |-> ParseFloat(Field(req[p].request.body, "prix")),
                                type |->
                                    [_id |-> req[p].request.body.typeId,
                                     nomTypePieces |-> req[p].snap.data.nomTypePieces]])]
           /\ req' = [req EXCEPT ![p].pc = "created", ![p].col = "piecesReparables",
                                 ![p].newId = newId, ![p].docs = {},
                                 ![p].ops = @ + 1]
    /\ UNCHANGED <<useFirebase, seedData, seedFile, res>>

\* POST /api/typesPieces: up to the add of the type in document-store mode,
\* the whole handler in fallback mode.
PostTypesPieces(p, r) ==
    /\ Free(p)
    /\ IF ~Truthy(Field(r.body, "nomTypePieces"))
       THEN /\ Answer(p, r, RouteOf[r].handler, Err(400, "nomTypePieces est requis"), 0)
            /\ UNCHANGED <<db, seedData, seedFile>>
       ELSE IF useFirebase
       THEN /\ CanAdd(db.typesPieces)
            /\ db' = [db EXCEPT !.typesPieces =
                         DocSet(@, GeneratedId(@),
                                [nomTypePieces |-> r.body.nomTypePieces])]
            /\ Created(p, r, "typesPieces", GeneratedId(db.typesPieces), 1)
            /\ UNCHANGED <<seedData, seedFile>>
       ELSE LET types == SeedList(seedData, "typesPieces")
                newId == TypePieceId(Len(types) + 1)
            IN  /\ seedData' =
                       SeedPut(seedData, "typesPieces",
                               Append(types, [_id |-> newId,
                                              nomTypePieces |-> r.body.nomTypePieces]))
                /\ WriteFile(seedData')
                /\ Answer(p, r, RouteOf[r].handler, [Resp(200) EXCEPT !.id = newId], 0)
                /\ UNCHANGED db
    /\ UNCHANGED useFirebase

\* app.use((req, res) => ...): no route matched.
NotFound(p, r) ==
    /\ Free(p)
    /\ Answer(p, r, "404", Err(404, "Route non trouvée"), 0)
    /\ UNCHANGED <<useFirebase, db, seedData, seedFile>>

(***************************************************************************)
(* Reading entities: lists, filtered lists, one entity, health             *)
(***************************************************************************)
\* { _id: doc.id, ...doc.data() }
AsEntity(id, data) == Merge([_id |-> id], data)

\* snapshot.docs.map(doc => ({ _id: doc.id, ...doc.data() }))
Entities(docs) == {AsEntity(k, docs[k]) : k \in DOMAIN docs}

\* e.a?.b : the field b of the object held by field a, undefined without it.
Nested(e, path) ==
    IF Len(path) = 1 THEN Field(e, path[1])
    ELSE IF path[1] \in DOMAIN e THEN Field(e[path[1]], path[2])
    ELSE Undefined

\* collection.where(path, '==', value).get()
Where(col, path, value) ==
    [k \in {d \in DOMAIN col : Nested(col[d], path) = value} |-> col[k]]

\* array.filter(e => true): every position is kept.
FilterAll(list, path, value) == 1..Len(list)

\* array.filter(e => e.path === value): the positions kept, in order.
Filter(list, path, value) == {k \in 1..Len(list) : Nested(list[k], path) = value}

\* array.find(e => e.key === id || ...): the first position that matches,
\* 0 when none does.
Find(list, keys, id) ==
    LET hits == {k \in 1..Len(list) : \E f \in keys : Field(list[k], f) = id}
    IN  IF hits = {} THEN 0 ELSE CHOOSE k \in hits : \A j \in hits : k <= j

\* The message of the TypeError raised by undefined.find(...)
FindOfUndefined == "Cannot read properties of undefined (reading 'find')"

\* res.json(seedData.name || []): the entities sent and their number.
Listed(data, name) ==
    [Resp(200) EXCEPT !.list = Range(SeedList(data, name)),
                      !.count = Len(SeedList(data, name))]

\* GET of a whole collection: up to collection.get() in document-store mode,
\* the whole handler in fallback mode (seedData.name || []).
EntityList(p, r, route, col, name) ==
    /\ Free(p)
    /\ IF useFirebase
       THEN Await(p, r, route.handler, "docs", 0, NoSnap, CollectionGet(db[col]), 1)
       ELSE Answer(p, r, route.handler, Listed(seedData, name), 0)
    /\ UNCHANGED <<useFirebase, db, seedData, seedFile>>

GetVoitures(p, r) == EntityList(p, r, RouteOf[r], "voitures", "voitures")

GetClients(p, r) == EntityList(p, r, RouteOf[r], "clients", "clients")

GetProprietaires(p, r) == EntityList(p, r, RouteOf[r], "proprietaires", "proprietaires")

GetReparations(p, r) == EntityList(p, r, RouteOf[r], "reparations", "reparations")

GetFinReparationPieces(p, r) ==
    EntityList(p, r, RouteOf[r], "finReparationPieces", "finReparationPieces")

GetHistoriquePaiement(p, r) ==
    EntityList(p, r, RouteOf[r], "historiquePaiement", "historiquePaiement")

GetTypesVoiture(p, r) == EntityList(p, r, RouteOf[r], "typesVoiture", "typesVoiture")

GetPieces(p, r) == EntityList(p, r, RouteOf[r], "piecesReparables", "piecesReparables")

GetTypesPieces(p, r) == EntityList(p, r, RouteOf[r], "typesPieces", "typesPieces")

GetNotifications(p, r) == EntityList(p, r, RouteOf[r], "notifications", "notifications")

\* GET of the entities whose field (at path) equals the route's parameter:
\* up to where(...).get() in document-store mode, the whole handler in
\* fallback mode.
EntityFilter(p, r, route, col, name, path) ==
    /\ Free(p)
    /\ IF useFirebase
       THEN Await(p, r, route.handler, "docs", 0, NoSnap,
                  Where(db[col], path, route.id), 1)
       ELSE LET all == SeedList(seedData, name)
                kept == Filter(all, path, route.id)
            IN  Answer(p, r, route.handler,
                       [Resp(200) EXCEPT !.list = {all[k] : k \in kept},
                                         !.count = Cardinality(kept)], 0)
    /\ UNCHANGED <<useFirebase, db, seedData, seedFile>>

GetReparationsByVoiture(p, r) ==
    EntityFilter(p, r, RouteOf[r], "reparations", "reparations", <<"voiture", "_id">>)

GetFinReparationPiecesByReparation(p, r) ==
    EntityFilter(p, r, RouteOf[r], "finReparationPieces", "finReparationPieces",
                 <<"reparation", "_id">>)

GetHistoriquePaiementByReparation(p, r) ==
    EntityFilter(p, r, RouteOf[r], "historiquePaiement", "historiquePaiement", <<"reparationId">>)

GetHistoriquePaiementByClient(p, r) ==
    EntityFilter(p, r, RouteOf[r], "historiquePaiement", "historiquePaiement", <<"clientId">>)

GetNotificationsByVoiture(p, r) ==
    EntityFilter(p, r, RouteOf[r], "notifications", "notifications", <<"voitureId">>)

\* collection.where('read', '==', false).get(): the documents whose field
\* read is false; a document without the field is not one of them.
WhereUnread(col) ==
    [k \in {d \in DOMAIN col : "read" \in DOMAIN col[d] /\ col[d].read = FALSE} |->
        col[k]]

\* array.filter(n => !n.read): the positions kept; undefined is falsy.
NotRead(list) ==
    {k \in 1..Len(list) : ~("read" \in DOMAIN list[k] /\ list[k].read)}

\* The handler registered for GET /api/notifications/unread: up to the query
\* in document-store mode, the whole handler in fallback mode.
GetNotificationsUnread(p, r) ==
    /\ Free(p)
    /\ IF useFirebase
       THEN Await(p, r, "GET /api/notifications/unread", "docs", 0, NoSnap,
                  WhereUnread(db.notifications), 1)
       ELSE LET all == SeedList(seedData, "notifications")
                kept == NotRead(all)
            IN  Answer(p, r, "GET /api/notifications/unread",
                       [Resp(200) EXCEPT !.list = {all[k] : k \in kept},
                                         !.count = Cardinality(kept)], 0)
    /\ UNCHANGED <<useFirebase, db, seedData, seedFile>>

\* After collection.get() or where(...).get(): the documents are sent.
EntityListed(p) ==
    /\ req[p].pc = "docs"
    /\ Finish(p, [Resp(200) EXCEPT !.list = Entities(req[p].docs),
                                   !.count = Cardinality(DOMAIN req[p].docs)])
    /\ UNCHANGED <<useFirebase, db, seedData, seedFile>>

\* The 404 message of each handler that reads one entity.
NotFoundMessage(h) ==
    CASE h = "GET /api/voitures/:id" -> "Voiture non trouvée"
      [] h = "GET /api/clients/:id" -> "Client non trouvé"
      [] h = "GET /api/proprietaires/:id" -> "Propriétaire non trouvé"
      [] h = "GET /api/reparations/:id" -> "Réparation non trouvée"
      [] h = "GET /api/finReparationPieces/:id" -> "Fin de réparation non trouvée"
      [] h = "GET /api/historiquePaiement/:id" -> "Paiement non trouvé"
      [] h = "GET /api/pieces/:id" -> "Pièce non trouvée"
      [] h = "GET /api/typesPieces/:id" -> "Type de pièce non trouvé"
      [] h = "GET /api/notifications/:id" -> "Notification non trouvée"
      [] OTHER -> "Non trouvé"

\* GET of one entity: up to doc(id).get() in document-store mode, the whole
\* handler in fallback mode.  `guarded` tells whether the fallback lookup
\* tolerates a dataset without the collection (seedData.name || [], or ?.);
\* an unguarded lookup calls find on undefined, and the catch answers 500.
EntityGetById(p, r, route, col, name, guarded, keys) ==
    /\ Free(p)
    /\ IF useFirebase
       THEN Await(p, r, route.handler, "doc", 0, DocGet(db[col], route.id), {}, 1)
       ELSE IF ~guarded /\ name \notin DOMAIN seedData
       THEN Answer(p, r, route.handler, Err(500, FindOfUndefined), 0)
       ELSE LET all == SeedList(seedData, name)
                k == Find(all, keys, route.id)
            IN  IF k = 0
                THEN Answer(p, r, route.handler,
                            Err(404, NotFoundMessage(route.handler)), 0)
                ELSE Answer(p, r, route.handler,
                            [Resp(200) EXCEPT !.id = Field(all[k], "_id"),
                                              !.list = {all[k]}, !.count = 1], 0)
    /\ UNCHANGED <<useFirebase, db, seedData, seedFile>>

GetVoituresById(p, r) == EntityGetById(p, r, RouteOf[r], "voitures", "voitures", FALSE, {"_id"})

GetClientsById(p, r) == EntityGetById(p, r, RouteOf[r], "clients", "clients", FALSE, {"_id"})

GetProprietairesById(p, r) ==
    EntityGetById(p, r, RouteOf[r], "proprietaires", "proprietaires", TRUE, {"_id"})

GetReparationsById(p, r) ==
    EntityGetById(p, r, RouteOf[r], "reparations", "reparations", TRUE,
                  {"_id", "id", "code", "idReparation"})

GetFinReparationPiecesById(p, r) ==
    EntityGetById(p, r, RouteOf[r], "finReparationPieces", "finReparationPieces", TRUE, {"_id"})

GetHistoriquePaiementById(p, r) ==
    EntityGetById(p, r, RouteOf[r], "historiquePaiement", "historiquePaiement", TRUE, {"_id"})

GetPiecesById(p, r) ==
    EntityGetById(p, r, RouteOf[r], "piecesReparables", "piecesReparables", TRUE, {"_id"})

GetTypesPiecesById(p, r) ==
    EntityGetById(p, r, RouteOf[r], "typesPieces", "typesPieces", TRUE, {"_id"})

GetNotificationsById(p, r) ==
    EntityGetById(p, r, RouteOf[r], "notifications", "notifications", TRUE, {"_id"})

\* After doc(id).get(): 404 when the document does not exist.
EntityGot(p) ==
    /\ req[p].pc = "doc"
    /\ IF ~req[p].snap.exists
       THEN Finish(p, Err(404, NotFoundMessage(req[p].handler)))
       ELSE Finish(p, [Resp(200) EXCEPT
                          !.id = req[p].snap.id,
                          !.list = {AsEntity(req[p].snap.id, req[p].snap.data)},
                          !.count = 1])
    /\ UNCHANGED <<useFirebase, db, seedData, seedFile>>

\* The number of distinct ids of a collection of the dataset.
AvailableDistinct(data, name) ==
    Cardinality({SeedList(data, name)[k]._id : k \in 1..Len(SeedList(data, name))})

\* seedData.name ? seedData.name.length : 0
Available(data, name) == IF name \in DOMAIN data THEN Len(data[name]) ELSE 0

\* GET /api/health: the sizes of the collections of the dataset.
GetHealth(p, r) ==
    /\ Free(p)
    /\ Answer(p, r, RouteOf[r].handler,
              [Resp(200) EXCEPT !.dataAvailable =
                  [voitures |-> Available(seedData, "voitures"),
                   clients |-> Available(seedData, "clients"),
                   proprietaires |-> Available(seedData, "proprietaires"),
                   reparations |-> Available(seedData, "reparations"),
                   finReparationPieces |-> Available(seedData, "finReparationPieces"),
                   pieces |-> Available(seedData, "piecesReparables"),
                   notifications |-> Available(seedData, "notifications")]], 0)
    /\ UNCHANGED <<useFirebase, db, seedData, seedFile>>

(***************************************************************************)
(* Updating and deleting entities                                          *)
(***************************************************************************)
\* array.findIndex(e => e._id === id): the first position, 0 for -1.
FindIndex(list, id) == Find(list, {"_id"}, id)

\* array.splice(index, 1)
Splice(list, k) == SubSeq(list, 1, k - 1) \o SubSeq(list, k + 1, Len(list))

\* The list with the entity at position k replaced.
Replaced(list, k, e) == [list EXCEPT ![k] = e]

\* The message of the error of doc.update() on a missing document.
NoDocument == "NOT_FOUND: No document to update"

\* DELETE /api/pieces/:id: up to doc(id).delete() in document-store mode,
\* the whole handler in fallback mode.
PieceDelete(p, r, route) ==
    /\ Free(p)
    /\ IF useFirebase
       THEN /\ db' = [db EXCEPT !.piecesReparables = DocDelete(@, route.id)]
            /\ Await(p, r, route.handler, "pieceDeleted", 0, NoSnap, {}, 1)
            /\ UNCHANGED <<seedData, seedFile>>
       ELSE LET pieces == SeedList(seedData, "piecesReparables")
                index == FindIndex(pieces, route.id)
            IN  IF index = 0
                THEN /\ Answer(p, r, route.handler, Err(404, "Pièce non trouvée"), 0)
                     /\ UNCHANGED <<db, seedData, seedFile>>
                ELSE /\ seedData' = SeedPut(seedData, "piecesReparables",
                                            Splice(pieces, index))
                     /\ WriteFile(seedData')
                     /\ Answer(p, r, route.handler, Resp(200), 0)
                     /\ UNCHANGED db
    /\ UNCHANGED useFirebase

DeletePieces(p, r) == PieceDelete(p, r, RouteOf[r])

\* After doc(id).delete(): the success message is sent.
PieceDeleted(p) ==
    /\ req[p].pc = "pieceDeleted"
    /\ Finish(p, Resp(200))
    /\ UNCHANGED <<useFirebase, db, seedData, seedFile>>

\* The fields PUT /api/pieces/:id sets from the body, but the type.
PieceChanges(body) ==
    [f \in {g \in {"nomPieces", "prix"} : Truthy(Field(body, g))} |->
        IF f = "prix" THEN ParseFloat(body.prix) ELSE body[f]]

\* PUT /api/pieces/:id: up to the read of the part in document-store mode,
\* the whole handler in fallback mode.  In fallback mode the name and the
\* price are set on the part before the type is looked up.
PieceUpdate(p, r, route) ==
    /\ Free(p)
    /\ IF /\ ~Truthy(Field(r.body, "nomPieces"))
          /\ ~Truthy(Field(r.body, "prix"))
          /\ ~Truthy(Field(r.body, "typeId"))
       THEN /\ Answer(p, r, route.handler,
                      Err(400, "Au moins un champ (nomPieces, prix ou typeId) est requis"), 0)
            /\ UNCHANGED <<seedData, seedFile>>
       ELSE IF useFirebase
       THEN /\ Await(p, r, route.handler, "pieceDoc", 0,
                     DocGet(db.piecesReparables, route.id), {}, 1)
            /\ UNCHANGED <<seedData, seedFile>>
       ELSE LET pieces == SeedList(seedData, "piecesReparables")
                k == FindIndex(pieces, route.id)
                types == SeedList(seedData, "typesPieces")
                found == FindType(types, Field(r.body, "typeId"))
                changed == Merge(pieces[k], PieceChanges(r.body))
                typed == Merge(changed,
                               [type |->
                                   [_id |-> r.body.typeId,
                                    nomTypePieces |->
                                        types[CHOOSE t \in found :
                                                  \A j \in found : t <= j]
                                            .nomTypePieces]])
            IN  IF k = 0
                THEN /\ Answer(p, r, route.handler, Err(404, "Pièce non trouvée"), 0)
                     /\ UNCHANGED <<seedData, seedFile>>
                ELSE IF ~Truthy(Field(r.body, "typeId"))
                THEN /\ seedData' = SeedPut(seedData, "piecesReparables",
                                            Replaced(pieces, k, changed))
                     /\ WriteFile(seedData')
                     /\ Answer(p, r, route.handler,
                               [Resp(200) EXCEPT !.id = route.id], 0)
                ELSE IF found = {}
                THEN /\ seedData' = SeedPut(seedData, "piecesReparables",
                                            Replaced(pieces, k, changed))
                     /\ UNCHANGED seedFile
                     /\ Answer(p, r, route.handler,
                               Err(404, "Type de pièce non trouvé"), 0)
                ELSE /\ seedData' = SeedPut(seedData, "piecesReparables",
                                            Replaced(pieces, k, typed))
                     /\ WriteFile(seedData')
                     /\ Answer(p, r, route.handler,
                               [Resp(200) EXCEPT !.id = route.id], 0)
    /\ UNCHANGED <<useFirebase, db>>

PutPieces(p, r) == PieceUpdate(p, r, RouteOf[r])

\* piecesRef.update(updateData), then the read of the updated part; the
\* update of a document that no longer exists rejects.
PieceWrite(p, updateData) ==
    IF req[p].snap.id \in DOMAIN db.piecesReparables
    THEN /\ db' = [db EXCEPT !.piecesReparables =
                      DocSetMerge(@, req[p].snap.id, updateData)]
         /\ req' = [req EXCEPT ![p].pc = "created", ![p].col = "piecesReparables",
                               ![p].newId = req[p].snap.id, ![p].ops = @ + 1]
         /\ UNCHANGED res
    ELSE /\ Finish(p, Err(500, NoDocument))
         /\ UNCHANGED db

\* After piecesRef.get(): 404 when the part is missing; otherwise the type is
\* read when the body names one, and the part is updated when it does not.
PutPieceDoc(p) ==
    /\ req[p].pc = "pieceDoc"
    /\ IF ~req[p].snap.exists
       THEN /\ Finish(p, Err(404, "Pièce non trouvée"))
            /\ UNCHANGED db
       ELSE IF Truthy(Field(req[p].request.body, "typeId"))
       THEN /\ req' = [req EXCEPT ![p].pc = "putTypeDoc",
                                  ![p].doc = DocGet(db.typesPieces,
                                                    req[p].request.body.typeId),
                                  ![p].ops = @ + 1]
            /\ UNCHANGED <<db, res>>
       ELSE PieceWrite(p, PieceChanges(req[p].request.body))
    /\ UNCHANGED <<useFirebase, seedData, seedFile>>

\* After the read of the type: 404 when it is missing, otherwise the part is
\* updated with its new type.
PutTypeDoc(p) ==
    /\ req[p].pc = "putTypeDoc"
    /\ IF ~req[p].doc.exists
       THEN /\ Finish(p, Err(404, "Type de pièce non trouvé"))
            /\ UNCHANGED db
       ELSE PieceWrite(p, Merge(PieceChanges(req[p].request.body),
                                [type |-> [_id |-> req[p].request.body.typeId,
                                           nomTypePieces |->
                                               req[p].doc.data.nomTypePieces]]))
    /\ UNCHANGED <<useFirebase, seedData, seedFile>>

\* PUT /api/reparations/:id: up to doc(id).update({ statut }) in
\* document-store mode (an update of a missing document rejects), the whole
\* handler in fallback mode, which does not rewrite the file.
ReparationUpdate(p, r, route) ==
    /\ Free(p)
    /\ IF ~Truthy(Field(r.body, "statut"))
       THEN /\ Answer(p, r, route.handler, Err(400, "Le champ statut est requis"), 0)
            /\ UNCHANGED <<db, seedData>>
       ELSE IF useFirebase
       THEN IF route.id \in DOMAIN db.reparations
            THEN /\ db' = [db EXCEPT !.reparations =
                              DocSetMerge(@, route.id, [statut |-> r.body.statut])]
                 /\ Created(p, r, "reparations", route.id, 1)
                 /\ UNCHANGED seedData
            ELSE /\ Answer(p, r, route.handler, Err(500, NoDocument), 1)
                 /\ UNCHANGED <<db, seedData>>
       ELSE LET all == SeedList(seedData, "reparations")
                k == FindIndex(all, route.id)
            IN  IF k = 0
                THEN /\ Answer(p, r, route.handler,
                               Err(404, "Réparation non trouvée"), 0)
                     /\ UNCHANGED <<db, seedData>>
                ELSE /\ seedData' =
                            SeedPut(seedData, "reparations",
                                    Replaced(all, k,
                                             Merge(all[k], [statut |-> r.body.statut])))
                     /\ Answer(p, r, route.handler,
                               [Resp(200) EXCEPT !.id = route.id], 0)
                     /\ UNCHANGED db
    /\ UNCHANGED <<useFirebase, seedFile>>

PutReparation(p, r) == ReparationUpdate(p, r, RouteOf[r])

\* The list with the status of its first repair only set.
FirstEnCours(list) ==
    [k \in 1..Len(list) |->
        IF k = 1 THEN Merge(list[k], [statut |-> "EN_COURS"]) ELSE list[k]]

\* r.statut = 'EN_COURS' for every repair of the list
AllEnCours(list) == [k \in 1..Len(list) |-> Merge(list[k], [statut |-> "EN_COURS"])]

\* setAllReparationsEnCours: up to the read of the collection in
\* document-store mode, the whole handler in fallback mode.
SetAllEnCours(p, r, route) ==
    /\ Free(p)
    /\ IF useFirebase
       THEN /\ Await(p, r, route.handler, "snap", 0, NoSnap,
                     CollectionGet(db.reparations), 1)
            /\ UNCHANGED <<seedData, seedFile>>
       ELSE LET reps == SeedList(seedData, "reparations")
            IN  /\ seedData' = IF "reparations" \in DOMAIN seedData
                               THEN SeedPut(seedData, "reparations", AllEnCours(reps))
                               ELSE seedData
                /\ WriteFile(seedData')
                /\ Answer(p, r, route.handler,
                          [Resp(200) EXCEPT !.modified = Len(reps)], 0)
    /\ UNCHANGED <<useFirebase, db>>

setAllReparationsEnCours(p, r) == SetAllEnCours(p, r, RouteOf[r])

\* After collection.get(): an empty snapshot is answered at once; otherwise
\* one batch updates the status of every document read and is committed (the
\* commit rejects when one of them no longer exists).
EnCoursSnap(p) ==
    /\ req[p].pc = "snap"
    /\ IF DOMAIN req[p].docs = {}
       THEN /\ Finish(p, [Resp(200) EXCEPT !.modified = 0])
            /\ UNCHANGED db
       ELSE IF DOMAIN req[p].docs \subseteq DOMAIN db.reparations
       THEN /\ db' = [db EXCEPT !.reparations =
                         [k \in DOMAIN @ |->
                             IF k \in DOMAIN req[p].docs
                             THEN Merge(@[k], [statut |-> "EN_COURS"])
                             ELSE @[k]]]
            /\ req' = [req EXCEPT ![p].pc = "committed", ![p].ops = @ + 1]
            /\ UNCHANGED res
       ELSE /\ Finish(p, Err(500, NoDocument))
            /\ UNCHANGED db
    /\ UNCHANGED <<useFirebase, seedData, seedFile>>

\* After batch.commit(): modified = snap.size is sent.
EnCoursCommitted(p) ==
    /\ req[p].pc = "committed"
    /\ Finish(p, [Resp(200) EXCEPT !.modified = Cardinality(DOMAIN req[p].docs)])
    /\ UNCHANGED <<useFirebase, db, seedData, seedFile>>

(***************************************************************************)
(* Start-up                                                                *)
(***************************************************************************)
\* A collection without documents.
EmptyCol == [k \in {} |-> Undefined]

\* The collections of the document store the handlers of this module use.
EmptyDb ==
    [c \in {"proprietaires", "typesVoiture", "voitures", "clients", "reparations",
            "finReparationPieces", "historiquePaiement", "typesPieces",
            "piecesReparables", "notifications", "slotReparation",
            "slotAttente"} |-> EmptyCol]

\* seedData = {} : the dataset before (or without) a loaded seedData.json.
EmptySeed == [k \in {} |-> <<>>]

\* The state once the module has been loaded: the mode flag is set when the
\* Firestore handle was obtained, and no request has arrived.
Init ==
    /\ useFirebase \in BOOLEAN
    /\ db = EmptyDb
    /\ seedData = EmptySeed
    /\ seedFile = EmptySeed
    /\ req = [p \in Procs |-> Idle]
    /\ res = [p \in Procs |-> NoResponse]
    /\ history = <<>>

(***************************************************************************)
(* Spec: two callers whose requests on the slot pools overlap.  Each       *)
(* caller acts for one work item: caller p claims slots for the p-th       *)
(* reference, and either caller releases any slot.                         *)
(***************************************************************************)
\* The assign request r carries the reference of caller p.
OwnRef(p, r) == r.body.idReparation = RefSeq[p]

Next ==
    \E p \in Procs :
        \/ \E r \in SlotCalls :
              /\ Routed(r, "POST /api/slotReparation/assign")
              /\ OwnRef(p, r)
              /\ PostSlotReparationAssign(p, r) /\ UNCHANGED history
        \/ AssignScan(p) /\ UNCHANGED history
        \/ AssignSet(p) /\ UNCHANGED history
        \/ \E r \in SlotCalls :
              /\ Routed(r, "POST /api/slotAttente")
              /\ OwnRef(p, r)
              /\ PostSlotAttente(p, r) /\ UNCHANGED history
        \/ Slot1Snap(p) /\ UNCHANGED history
        \/ Slot2Snap(p) /\ UNCHANGED history
        \/ SlotSet(p) /\ UNCHANGED history
        \/ \E r \in SlotCalls :
              /\ Routed(r, "DELETE /api/slotReparation/:id")
              /\ DeleteSlotReparation(p, r) /\ UNCHANGED history
        \/ \E r \in SlotCalls :
              /\ Routed(r, "DELETE /api/slotAttente/:id")
              /\ DeleteSlotAttente(p, r) /\ UNCHANGED history
        \/ SlotDeleted(p) /\ UNCHANGED history

Spec == Init /\ [][Next]_vars

(***************************************************************************)
(* SpecHandlers: the two callers of Spec, one of which may also run the    *)
(* reset handler of the waiting pool.  The handler is entered as           *)
(* registered at line 1430, whatever route a request for its path takes.   *)
(***************************************************************************)
NextHandlers ==
    \/ Next
    \/ \E p \in Procs :
          \/ GetSlotAttenteReset(p, ResetCall) /\ UNCHANGED history
          \/ ResetListed(p) /\ UNCHANGED history
          \/ ResetCommitted(p) /\ UNCHANGED history

SpecHandlers == Init /\ [][NextHandlers]_vars

(***************************************************************************)
(* SpecReset: two callers on the waiting pool, claims and resets, the      *)
(* reset handler entered as registered.  The observer logs every step of   *)
(* every request, in order, with the store as the step left it.            *)
(***************************************************************************)
\* The observer appends the step caller p has just taken; `first` marks the
\* step a request starts with.
Observe(p) ==
    history' = Append(history, [proc |-> p,
                                first |-> Free(p),
                                handler |-> req'[p].handler,
                                ref |-> Field(req'[p].request.body, "idReparation"),
                                pc |-> req'[p].pc,
                                i |-> req'[p].i,
                                docs |-> req'[p].docs,
                                response |-> res'[p],
                                db |-> db'])

\* The callers may send one more request.
MayCall == Cardinality({k \in 1..Len(history) : history[k].first}) < MaxCalls

NextReset ==
    \E p \in Procs :
        \/ \E r \in SlotCalls :
              /\ MayCall
              /\ Routed(r, "POST /api/slotAttente")
              /\ OwnRef(p, r)
              /\ PostSlotAttente(p, r) /\ Observe(p)
        \/ Slot1Snap(p) /\ Observe(p)
        \/ Slot2Snap(p) /\ Observe(p)
        \/ SlotSet(p) /\ Observe(p)
        \/ MayCall /\ GetSlotAttenteReset(p, ResetCall) /\ Observe(p)
        \/ ResetListed(p) /\ Observe(p)
        \/ ResetCommitted(p) /\ Observe(p)

SpecReset == Init /\ [][NextReset]_vars

(***************************************************************************)
(* SpecSeq: one caller that waits for each answer before its next request  *)
(* (no two requests overlap); the observer records every answered request  *)
(* with the store as the answer left it.                                   *)
(***************************************************************************)
\* The observer appends the request caller p has just been answered.
Record(p) ==
    history' = IF req'[p].pc = "done"
               THEN Append(history, [request |-> req'[p].request,
                                     handler |-> req'[p].handler,
                                     response |-> res'[p],
                                     ops |-> req'[p].ops,
                                     db |-> db',
                                     seedData |-> seedData',
                                     seedFile |-> seedFile'])
               ELSE history

\* The references the answered requests carried.
UsedRefs == {Field(history[k].request.body, "idReparation") : k \in 1..Len(history)}

\* The caller names its work items in order: a request carries a reference
\* already used or the next unused one.  The handlers never compare
\* references, so this leaves out only renamings of the runs kept.
NextRef(r) ==
    \A i \in 1..Len(RefSeq) :
        RefSeq[i] = r.body.idReparation => \A j \in 1..(i - 1) : RefSeq[j] \in UsedRefs

\* The caller may send one more request.
MaySend == Free(1) /\ Len(history) < MaxHist

InitSeq == Init

NextSeq ==
    \/ \E r \in SeqCalls :
          /\ MaySend
          /\ Routed(r, "POST /api/slotReparation/assign")
          /\ NextRef(r)
          /\ PostSlotReparationAssign(1, r) /\ Record(1)
    \/ AssignScan(1) /\ Record(1)
    \/ AssignSet(1) /\ Record(1)
    \/ \E r \in SeqCalls :
          /\ MaySend
          /\ Routed(r, "POST /api/slotAttente")
          /\ NextRef(r)
          /\ PostSlotAttente(1, r) /\ Record(1)
    \/ Slot1Snap(1) /\ Record(1)
    \/ Slot2Snap(1) /\ Record(1)
    \/ SlotSet(1) /\ Record(1)
    \/ \E r \in SeqCalls :
          /\ MaySend
          /\ Routed(r, "DELETE /api/slotReparation/:id")
          /\ DeleteSlotReparation(1, r) /\ Record(1)
    \/ \E r \in SeqCalls :
          /\ MaySend
          /\ Routed(r, "DELETE /api/slotAttente/:id")
          /\ DeleteSlotAttente(1, r) /\ Record(1)
    \/ SlotDeleted(1) /\ Record(1)

SpecSeq == InitSeq /\ [][NextSeq]_vars

(***************************************************************************)
(* SpecWaiting: one caller of the waiting pool that waits for each answer  *)
(* before its next request: claims, GET /api/slotAttente/reset and         *)
(* GET /api/slotAttente, each served by the route Express selects for it.  *)
(***************************************************************************)
NextWaiting ==
    \/ \E r \in WaitingCalls :
          /\ MaySend
          /\ Routed(r, "POST /api/slotAttente")
          /\ NextRef(r)
          /\ PostSlotAttente(1, r) /\ Record(1)
    \/ Slot1Snap(1) /\ Record(1)
    \/ Slot2Snap(1) /\ Record(1)
    \/ SlotSet(1) /\ Record(1)
    \/ \E r \in WaitingCalls :
          /\ MaySend
          /\ Routed(r, "GET /api/slotAttente")
          /\ GetSlotAttente(1, r) /\ Record(1)
    \/ SlotListed(1) /\ Record(1)
    \/ \E r \in WaitingCalls :
          /\ MaySend
          /\ Routed(r, "GET /api/slotAttente/:id")
          /\ GetSlotAttenteById(1, r) /\ Record(1)
    \/ SlotGot(1) /\ Record(1)

SpecWaiting == Init /\ [][NextWaiting]_vars

(***************************************************************************)
(* SpecCreate: one caller that creates entities and uses the slot pools,   *)
(* waiting for each answer before its next request, in either mode.  The   *)
(* store holds a vehicle type and the dataset is empty or loaded from      *)
(* seedData.json.  The observer keeps the last request with the stores as  *)
(* the request found and left them.                                        *)
(***************************************************************************)
\* A document store in which a vehicle type was registered.
SeededDb ==
    [EmptyDb EXCEPT !.typesVoiture = DocSet(EmptyCol, "TV-1", [nomType |-> "Citadine"])]

\* A dataset loaded from seedData.json.
LoadedSeed ==
    [reparations |-> <<Reparation([voiture |-> [_id |-> "V1"]], "REP-001")>>,
     typesPieces |-> <<[_id |-> "TP-001", nomTypePieces |-> "Moteur"]>>]

InitCreate ==
    /\ useFirebase \in BOOLEAN
    /\ db = IF useFirebase THEN SeededDb ELSE EmptyDb
    /\ seedData \in {EmptySeed, LoadedSeed}
    /\ seedFile = seedData
    /\ req = [p \in Procs |-> Idle]
    /\ res = [p \in Procs |-> NoResponse]
    /\ history = <<>>

\* The number of documents a collection holds.
Size(col) == Cardinality(DOMAIN col)

\* The number of documents of the store plus the entries of the dataset.
Stored ==
    Size(db.proprietaires) + Size(db.typesVoiture) + Size(db.voitures)
    + Size(db.reparations) + Size(db.finReparationPieces)
    + Size(db.historiquePaiement) + Size(db.typesPieces)
    + Size(db.piecesReparables) + Size(db.slotReparation) + Size(db.slotAttente)
    + Len(SeedList(seedData, "reparations"))
    + Len(SeedList(seedData, "piecesReparables"))
    + Len(SeedList(seedData, "typesPieces"))

\* The caller may send one more request.
MayCreate == Free(1) /\ Stored < MaxStored

\* The stores, as one value.
Stores(d, data, file) == [db |-> d, seedData |-> data, seedFile |-> file]

\* The observer replaces its record by the state of the request of caller p.
ObserveLast(p) ==
    history' = <<[request |-> req'[p].request,
                  handler |-> req'[p].handler,
                  pc |-> req'[p].pc,
                  response |-> res'[p],
                  ops |-> req'[p].ops,
                  before |-> IF Free(p) THEN Stores(db, seedData, seedFile)
                             ELSE history[1].before,
                  after |-> Stores(db', seedData', seedFile')]>>

NextCreate ==
    \/ \E r \in VoitureCalls :
          /\ Routed(r, "POST /api/voitures")
          /\ MayCreate
          /\ PostVoitures(1, r) /\ ObserveLast(1)
    \/ \E r \in ProprietaireCalls :
          /\ Routed(r, "POST /api/proprietaires")
          /\ MayCreate
          /\ PostProprietaires(1, r) /\ ObserveLast(1)
    \/ \E r \in ReparationCalls :
          /\ Routed(r, "POST /api/reparations")
          /\ MayCreate
          /\ PostReparations(1, r) /\ ObserveLast(1)
    \/ \E r \in FinReparationPiecesCalls :
          /\ Routed(r, "POST /api/finReparationPieces")
          /\ MayCreate
          /\ PostFinReparationPieces(1, r) /\ ObserveLast(1)
    \/ \E r \in HistoriquePaiementCalls :
          /\ Routed(r, "POST /api/historiquePaiement")
          /\ MayCreate
          /\ PostHistoriquePaiement(1, r) /\ ObserveLast(1)
    \/ \E r \in PieceCalls :
          /\ Routed(r, "POST /api/pieces")
          /\ MayCreate
          /\ PostPieces(1, r) /\ ObserveLast(1)
    \/ \E r \in TypesPiecesCalls :
          /\ Routed(r, "POST /api/typesPieces")
          /\ MayCreate
          /\ PostTypesPieces(1, r) /\ ObserveLast(1)
    \/ \E r \in SlotCreateCalls :
          /\ Routed(r, "POST /api/slotReparation")
          /\ MayCreate
          /\ PostSlotReparation(1, r) /\ ObserveLast(1)
    \/ \E r \in SlotCreateCalls :
          /\ Routed(r, "POST /api/slotReparation/assign")
          /\ MayCreate
          /\ PostSlotReparationAssign(1, r) /\ ObserveLast(1)
    \/ \E r \in SlotCreateCalls :
          /\ Routed(r, "POST /api/slotAttente")
          /\ MayCreate
          /\ PostSlotAttente(1, r) /\ ObserveLast(1)
    \/ \E r \in SlotReadCalls :
          /\ Routed(r, "GET /api/slotReparation")
          /\ MayCreate
          /\ GetSlotReparation(1, r) /\ ObserveLast(1)
    \/ \E r \in SlotReadCalls :
          /\ Routed(r, "GET /api/slotAttente")
          /\ MayCreate
          /\ GetSlotAttente(1, r) /\ ObserveLast(1)
    \/ \E r \in SlotReadCalls :
          /\ Routed(r, "GET /api/slotReparation/:id")
          /\ MayCreate
          /\ GetSlotReparationById(1, r) /\ ObserveLast(1)
    \/ \E r \in SlotReadCalls :
          /\ Routed(r, "GET /api/slotAttente/:id")
          /\ MayCreate
          /\ GetSlotAttenteById(1, r) /\ ObserveLast(1)
    \/ \E r \in SlotReadCalls :
          /\ Routed(r, "DELETE /api/slotReparation/:id")
          /\ MayCreate
          /\ DeleteSlotReparation(1, r) /\ ObserveLast(1)
    \/ \E r \in SlotReadCalls :
          /\ Routed(r, "DELETE /api/slotAttente/:id")
          /\ MayCreate
          /\ DeleteSlotAttente(1, r) /\ ObserveLast(1)
    \/ /\ Routed(UnknownCall, "404")
       /\ MayCreate
       /\ NotFound(1, UnknownCall) /\ ObserveLast(1)
    \/ VoiturePropDoc(1) /\ ObserveLast(1)
    \/ VoitureTypeDoc(1) /\ ObserveLast(1)
    \/ ReparationsSnapshot(1) /\ ObserveLast(1)
    \/ PieceTypeDoc(1) /\ ObserveLast(1)
    \/ PiecesSnapshot(1) /\ ObserveLast(1)
    \/ CreatedGet(1) /\ ObserveLast(1)
    \/ CreatedRead(1) /\ ObserveLast(1)
    \/ SlotAdded(1) /\ ObserveLast(1)
    \/ AssignScan(1) /\ ObserveLast(1)
    \/ AssignSet(1) /\ ObserveLast(1)
    \/ Slot1Snap(1) /\ ObserveLast(1)
    \/ Slot2Snap(1) /\ ObserveLast(1)
    \/ SlotSet(1) /\ ObserveLast(1)
    \/ SlotListed(1) /\ ObserveLast(1)
    \/ SlotGot(1) /\ ObserveLast(1)
    \/ SlotDeleted(1) /\ ObserveLast(1)

SpecCreate == InitCreate /\ [][NextCreate]_vars

(***************************************************************************)
(* SpecFail: one caller, one request at a time, in either mode, against    *)
(* stores that may fail: a call of the document store issued by an assign  *)
(* on the repair pool may reject, and the rewrite of seedData.json may     *)
(* throw.  The observer keeps the last request as in SpecCreate.           *)
(***************************************************************************)
NextFail ==
    \/ \E r \in SlotCreateCalls :
          /\ Routed(r, "POST /api/slotReparation/assign")
          /\ MayCreate
          /\ PostSlotReparationAssign(1, r) /\ ObserveLast(1)
    \/ \E r \in SlotCreateCalls :
          /\ Routed(r, "POST /api/slotReparation/assign")
          /\ MayCreate
          /\ AssignGetThrows(1, r) /\ ObserveLast(1)
    \/ \E r \in ReparationCalls :
          /\ Routed(r, "POST /api/reparations")
          /\ MayCreate
          /\ PostReparations(1, r) /\ ObserveLast(1)
    \/ \E r \in PieceCalls :
          /\ Routed(r, "POST /api/pieces")
          /\ MayCreate
          /\ PostPieces(1, r) /\ ObserveLast(1)
    \/ \E r \in TypesPiecesCalls :
          /\ Routed(r, "POST /api/typesPieces")
          /\ MayCreate
          /\ PostTypesPieces(1, r) /\ ObserveLast(1)
    \/ AssignScan(1) /\ ObserveLast(1)
    \/ AssignCallThrows(1) /\ ObserveLast(1)
    \/ AssignSet(1) /\ ObserveLast(1)
    \/ ReparationsSnapshot(1) /\ ObserveLast(1)
    \/ PieceTypeDoc(1) /\ ObserveLast(1)
    \/ PiecesSnapshot(1) /\ ObserveLast(1)
    \/ CreatedGet(1) /\ ObserveLast(1)
    \/ CreatedRead(1) /\ ObserveLast(1)

SpecFail == InitCreate /\ [][NextFail]_vars

(***************************************************************************)
(* Reading: one caller reads stores that hold the same entities            *)
(***************************************************************************)
\* The entities of a loaded seedData.json, by collection of the dataset.
FullSeed ==
    [voitures |-> <<[_id |-> "V1", marque |-> "Clio"]>>,
     clients |-> <<[_id |-> "C1", nom |-> "Rabe"]>>,
     proprietaires |-> <<[_id |-> "P1", nom |-> "Rabe"]>>,
     reparations |->
         <<[_id |-> "REP-001", voiture |-> [_id |-> "V1"], statut |-> "EN_ATTENTE",
            description |-> "Freins"],
           [_id |-> "REP-003", voiture |-> [_id |-> "V2"], statut |-> "TERMINE",
            description |-> "Vidange"]>>,
     finReparationPieces |->
         <<[_id |-> "F1", reparation |-> [_id |-> "REP-001"]],
           [_id |-> "F2", dateFinReparation |-> "t"]>>,
     historiquePaiement |->
         <<[_id |-> "H1", reparationId |-> "REP-001", clientId |-> "C1"],
           [_id |-> "H2", reparationId |-> "REP-003", clientId |-> "C2"]>>,
     typesVoiture |-> <<[_id |-> "TV-1", nomType |-> "Citadine"]>>,
     piecesReparables |->
         <<[_id |-> "PR-001", nomPieces |-> "Filtre", prix |-> ParseFloat("10"),
            type |-> [_id |-> "TP-001", nomTypePieces |-> "Moteur"]]>>,
     typesPieces |-> <<[_id |-> "TP-001", nomTypePieces |-> "Moteur"]>>,
     notifications |->
         <<[_id |-> "N1", voitureId |-> "V1", read |-> FALSE],
           [_id |-> "N2", voitureId |-> "V2"],
           [_id |-> "N3", voitureId |-> "V2", read |-> TRUE]>>]

\* The data of the document that holds an entity: its fields but _id.
DocOf(e) == [f \in DOMAIN e \ {"_id"} |-> e[f]]

\* The documents that hold the entities of a list, each under its _id.
DocsOf(list) ==
    [id \in {list[k]._id : k \in 1..Len(list)} |->
        DocOf(list[CHOOSE k \in 1..Len(list) : list[k]._id = id])]

\* The document store that holds the entities of FullSeed.
FullDb ==
    [c \in DOMAIN EmptyDb |->
        IF c \in DOMAIN FullSeed THEN DocsOf(FullSeed[c]) ELSE EmptyCol]

\* Either store is empty or holds the entities of FullSeed; without the
\* credentials the document store is not used.
InitRead ==
    /\ useFirebase \in BOOLEAN
    /\ db \in IF useFirebase THEN {EmptyDb, FullDb} ELSE {EmptyDb}
    /\ seedData \in {EmptySeed, FullSeed}
    /\ seedFile = seedData
    /\ req = [p \in Procs |-> Idle]
    /\ res = [p \in Procs |-> NoResponse]
    /\ history = <<>>

NextRead ==
    \/ \E r \in ListCalls("voitures") :
          /\ Routed(r, "GET /api/voitures")
          /\ GetVoitures(1, r) /\ ObserveLast(1)
    \/ \E r \in ListCalls("clients") :
          /\ Routed(r, "GET /api/clients")
          /\ GetClients(1, r) /\ ObserveLast(1)
    \/ \E r \in ListCalls("proprietaires") :
          /\ Routed(r, "GET /api/proprietaires")
          /\ GetProprietaires(1, r) /\ ObserveLast(1)
    \/ \E r \in ListCalls("reparations") :
          /\ Routed(r, "GET /api/reparations")
          /\ GetReparations(1, r) /\ ObserveLast(1)
    \/ \E r \in ListCalls("finReparationPieces") :
          /\ Routed(r, "GET /api/finReparationPieces")
          /\ GetFinReparationPieces(1, r) /\ ObserveLast(1)
    \/ \E r \in ListCalls("historiquePaiement") :
          /\ Routed(r, "GET /api/historiquePaiement")
          /\ GetHistoriquePaiement(1, r) /\ ObserveLast(1)
    \/ \E r \in ListCalls("types-voiture") :
          /\ Routed(r, "GET /api/types-voiture")
          /\ GetTypesVoiture(1, r) /\ ObserveLast(1)
    \/ \E r \in ListCalls("pieces") :
          /\ Routed(r, "GET /api/pieces")
          /\ GetPieces(1, r) /\ ObserveLast(1)
    \/ \E r \in ListCalls("typesPieces") :
          /\ Routed(r, "GET /api/typesPieces")
          /\ GetTypesPieces(1, r) /\ ObserveLast(1)
    \/ \E r \in ListCalls("notifications") :
          /\ Routed(r, "GET /api/notifications")
          /\ GetNotifications(1, r) /\ ObserveLast(1)
    \/ \E r \in FilterCalls("reparations", "voiture", "V1") :
          /\ Routed(r, "GET /api/reparations/voiture/:voitureId")
          /\ GetReparationsByVoiture(1, r) /\ ObserveLast(1)
    \/ \E r \in FilterCalls("finReparationPieces", "reparation", "REP-001") :
          /\ Routed(r, "GET /api/finReparationPieces/reparation/:reparationId")
          /\ GetFinReparationPiecesByReparation(1, r) /\ ObserveLast(1)
    \/ \E r \in FilterCalls("historiquePaiement", "reparation", "REP-001") :
          /\ Routed(r, "GET /api/historiquePaiement/reparation/:reparationId")
          /\ GetHistoriquePaiementByReparation(1, r) /\ ObserveLast(1)
    \/ \E r \in FilterCalls("historiquePaiement", "client", "C1") :
          /\ Routed(r, "GET /api/historiquePaiement/client/:clientId")
          /\ GetHistoriquePaiementByClient(1, r) /\ ObserveLast(1)
    \/ \E r \in FilterCalls("notifications", "voiture", "V1") :
          /\ Routed(r, "GET /api/notifications/voiture/:voitureId")
          /\ GetNotificationsByVoiture(1, r) /\ ObserveLast(1)
    \/ \E r \in ByIdCalls("voitures", "V1") :
          /\ Routed(r, "GET /api/voitures/:id")
          /\ GetVoituresById(1, r) /\ ObserveLast(1)
    \/ \E r \in ByIdCalls("clients", "C1") :
          /\ Routed(r, "GET /api/clients/:id")
          /\ GetClientsById(1, r) /\ ObserveLast(1)
    \/ \E r \in ByIdCalls("proprietaires", "P1") :
          /\ Routed(r, "GET /api/proprietaires/:id")
          /\ GetProprietairesById(1, r) /\ ObserveLast(1)
    \/ \E r \in ByIdCalls("reparations", "REP-001") :
          /\ Routed(r, "GET /api/reparations/:id")
          /\ GetReparationsById(1, r) /\ ObserveLast(1)
    \/ \E r \in ByIdCalls("finReparationPieces", "F1") :
          /\ Routed(r, "GET /api/finReparationPieces/:id")
          /\ GetFinReparationPiecesById(1, r) /\ ObserveLast(1)
    \/ \E r \in ByIdCalls("historiquePaiement", "H1") :
          /\ Routed(r, "GET /api/historiquePaiement/:id")
          /\ GetHistoriquePaiementById(1, r) /\ ObserveLast(1)
    \/ \E r \in ByIdCalls("pieces", "PR-001") :
          /\ Routed(r, "GET /api/pieces/:id")
          /\ GetPiecesById(1, r) /\ ObserveLast(1)
    \/ \E r \in ByIdCalls("typesPieces", "TP-001") :
          /\ Routed(r, "GET /api/typesPieces/:id")
          /\ GetTypesPiecesById(1, r) /\ ObserveLast(1)
    \/ \E r \in ByIdCalls("notifications", "N1") :
          /\ Routed(r, "GET /api/notifications/:id")
          /\ GetNotificationsById(1, r) /\ ObserveLast(1)
    \/ \E r \in ListCalls("health") :
          /\ Routed(r, "GET /api/health")
          /\ GetHealth(1, r) /\ ObserveLast(1)
    \/ GetNotificationsUnread(1, UnreadCall) /\ ObserveLast(1)
    \/ EntityListed(1) /\ ObserveLast(1)
    \/ EntityGot(1) /\ ObserveLast(1)

SpecRead == InitRead /\ [][NextRead]_vars

(***************************************************************************)
(* SpecPieces: one caller that creates and deletes parts and creates part  *)
(* types and repairs, one request at a time, in either mode.  Both stores  *)
(* start with one part type and no part.  The observer records every       *)
(* answered request, as in SpecSeq.                                        *)
(***************************************************************************)
\* The part type both stores start with.
SeedType == [_id |-> "TP-001", nomTypePieces |-> "Moteur"]

\* The document store and the dataset a run on the parts starts with.
PiecesDb == [EmptyDb EXCEPT !.typesPieces = DocsOf(<<SeedType>>)]

PiecesSeed == [typesPieces |-> <<SeedType>>]

InitPieces ==
    /\ useFirebase \in BOOLEAN
    /\ db = IF useFirebase THEN PiecesDb ELSE EmptyDb
    /\ seedData = PiecesSeed
    /\ seedFile = seedData
    /\ req = [p \in Procs |-> Idle]
    /\ res = [p \in Procs |-> NoResponse]
    /\ history = <<>>

\* The caller may send one more request.
MaySendPiece == Free(1) /\ Len(history) < MaxPieceCalls

NextPieces ==
    \/ \E r \in PieceCreateCalls :
          /\ Routed(r, "POST /api/pieces")
          /\ MaySendPiece
          /\ PostPieces(1, r) /\ Record(1)
    \/ \E r \in PieceDeleteCalls :
          /\ Routed(r, "DELETE /api/pieces/:id")
          /\ MaySendPiece
          /\ DeletePieces(1, r) /\ Record(1)
    \/ \E r \in TypeCreateCalls :
          /\ Routed(r, "POST /api/typesPieces")
          /\ MaySendPiece
          /\ PostTypesPieces(1, r) /\ Record(1)
    \/ \E r \in ReparationCreateCalls :
          /\ Routed(r, "POST /api/reparations")
          /\ MaySendPiece
          /\ PostReparations(1, r) /\ Record(1)
    \/ PieceTypeDoc(1) /\ Record(1)
    \/ PiecesSnapshot(1) /\ Record(1)
    \/ PieceDeleted(1) /\ Record(1)
    \/ ReparationsSnapshot(1) /\ Record(1)
    \/ CreatedGet(1) /\ Record(1)
    \/ CreatedRead(1) /\ Record(1)

SpecPieces == InitPieces /\ [][NextPieces]_vars

(***************************************************************************)
(* SpecMutate: one caller that changes repairs, parts and part types and   *)
(* reads the health report and the lists, one request at a time, in either *)
(* mode.  The store of the mode is empty or holds the entities of          *)
(* FullSeed.  The observer keeps the last request with the stores as the   *)
(* request found and left them.                                            *)
(***************************************************************************)
InitMutate ==
    /\ useFirebase \in BOOLEAN
    /\ db \in IF useFirebase THEN {EmptyDb, FullDb} ELSE {EmptyDb}
    /\ seedData \in IF useFirebase THEN {FullSeed} ELSE {EmptySeed, FullSeed}
    /\ seedFile = seedData
    /\ req = [p \in Procs |-> Idle]
    /\ res = [p \in Procs |-> NoResponse]
    /\ history = <<>>

\* The number of requests the caller has sent.
Sent == IF history = <<>> THEN 0 ELSE history[1].n

\* The caller may send one more request.
MayRequest == Free(1) /\ Sent < MaxRequests

\* The observer of SpecCreate, which also counts the requests.
ObserveNth(p) ==
    history' = <<[request |-> req'[p].request,
                  handler |-> req'[p].handler,
                  pc |-> req'[p].pc,
                  response |-> res'[p],
                  ops |-> req'[p].ops,
                  before |-> IF Free(p) THEN Stores(db, seedData, seedFile)
                             ELSE history[1].before,
                  after |-> Stores(db', seedData', seedFile'),
                  n |-> IF Free(p) THEN Sent + 1 ELSE Sent]>>

NextMutate ==
    \/ \E r \in ReparationCreateCalls :
          /\ Routed(r, "POST /api/reparations")
          /\ MayRequest
          /\ PostReparations(1, r) /\ ObserveNth(1)
    \/ \E r \in ReparationUpdateCalls :
          /\ Routed(r, "PUT /api/reparations/:id")
          /\ MayRequest
          /\ PutReparation(1, r) /\ ObserveNth(1)
    \/ \E r \in EnCoursCalls :
          /\ Routed(r, "PUT /api/reparations/statut/en-cours")
          /\ MayRequest
          /\ setAllReparationsEnCours(1, r) /\ ObserveNth(1)
    \/ \E r \in EnCoursCalls :
          /\ Routed(r, "GET /api/reparations/statut/en-cours")
          /\ MayRequest
          /\ setAllReparationsEnCours(1, r) /\ ObserveNth(1)
    \/ \E r \in PieceCreateCalls :
          /\ Routed(r, "POST /api/pieces")
          /\ MayRequest
          /\ PostPieces(1, r) /\ ObserveNth(1)
    \/ \E r \in PieceUpdateCalls :
          /\ Routed(r, "PUT /api/pieces/:id")
          /\ MayRequest
          /\ PutPieces(1, r) /\ ObserveNth(1)
    \/ \E r \in PieceDeleteCalls :
          /\ Routed(r, "DELETE /api/pieces/:id")
          /\ MayRequest
          /\ DeletePieces(1, r) /\ ObserveNth(1)
    \/ \E r \in TypeCreateCalls :
          /\ Routed(r, "POST /api/typesPieces")
          /\ MayRequest
          /\ PostTypesPieces(1, r) /\ ObserveNth(1)
    \/ \E r \in ByIdCalls("finReparationPieces", "reset") :
          /\ Routed(r, "GET /api/finReparationPieces/:id")
          /\ MayRequest
          /\ GetFinReparationPiecesById(1, r) /\ ObserveNth(1)
    \/ \E r \in ByIdCalls("notifications", "unread") :
          /\ Routed(r, "GET /api/notifications/:id")
          /\ MayRequest
          /\ GetNotificationsById(1, r) /\ ObserveNth(1)
    \/ \E r \in ListCalls("health") :
          /\ Routed(r, "GET /api/health")
          /\ MayRequest
          /\ GetHealth(1, r) /\ ObserveNth(1)
    \/ \E r \in ListCalls("reparations") :
          /\ Routed(r, "GET /api/reparations")
          /\ MayRequest
          /\ GetReparations(1, r) /\ ObserveNth(1)
    \/ \E r \in ListCalls("pieces") :
          /\ Routed(r, "GET /api/pieces")
          /\ MayRequest
          /\ GetPieces(1, r) /\ ObserveNth(1)
    \/ ReparationsSnapshot(1) /\ ObserveNth(1)
    \/ EnCoursSnap(1) /\ ObserveNth(1)
    \/ EnCoursCommitted(1) /\ ObserveNth(1)
    \/ PieceTypeDoc(1) /\ ObserveNth(1)
    \/ PiecesSnapshot(1) /\ ObserveNth(1)
    \/ PutPieceDoc(1) /\ ObserveNth(1)
    \/ PutTypeDoc(1) /\ ObserveNth(1)
    \/ PieceDeleted(1) /\ ObserveNth(1)
    \/ CreatedGet(1) /\ ObserveNth(1)
    \/ CreatedRead(1) /\ ObserveNth(1)
    \/ EntityListed(1) /\ ObserveNth(1)
    \/ EntityGot(1) /\ ObserveNth(1)

SpecMutate == InitMutate /\ [][NextMutate]_vars

(***************************************************************************)
(* SpecPools: one caller of the two pools that waits for each answer, on a *)
(* store whose pool collections already hold documents when the server     *)
(* starts: slots whose occupant reference is empty or absent, an occupied  *)
(* slot, and the reserved `_metadata` document.  The reset handler is      *)
(* entered as registered at line 1430.                                     *)
(***************************************************************************)
\* A slot document whose occupant reference is empty, one without the
\* reference, and one that is occupied.
VacatedSlot == [idReparation |-> ""]
UnclaimedSlot == [startTime |-> "t"]
OccupiedSlot == [idReparation |-> "REP-0"]

\* The reserved document of a collection.
MetadataDoc == [note |-> "reserved"]

\* The contents the repair pool and the waiting pool may start with.
SeededRepairPools ==
    {EmptyCol,
     DocSet(EmptyCol, "1", VacatedSlot),
     DocSet(DocSet(EmptyCol, "1", OccupiedSlot), "2", UnclaimedSlot)}

SeededWaitingPools ==
    {EmptyCol,
     DocSet(EmptyCol, "_metadata", MetadataDoc),
     DocSet(EmptyCol, "1", VacatedSlot),
     DocSet(DocSet(DocSet(EmptyCol, "1", OccupiedSlot), "2", UnclaimedSlot),
            "_metadata", MetadataDoc)}

InitPools ==
    /\ useFirebase \in BOOLEAN
    /\ db \in IF useFirebase
              THEN {[EmptyDb EXCEPT !.slotReparation = a, !.slotAttente = b] :
                       a \in SeededRepairPools, b \in SeededWaitingPools}
              ELSE {EmptyDb}
    /\ seedData = EmptySeed
    /\ seedFile = EmptySeed
    /\ req = [p \in Procs |-> Idle]
    /\ res = [p \in Procs |-> NoResponse]
    /\ history = <<>>

NextPools ==
    \/ \E r \in SeededAssignCalls :
          /\ MayRequest
          /\ Routed(r, "POST /api/slotReparation/assign")
          /\ PostSlotReparationAssign(1, r) /\ ObserveNth(1)
    \/ AssignScan(1) /\ ObserveNth(1)
    \/ AssignSet(1) /\ ObserveNth(1)
    \/ \E r \in SeededAttenteCalls :
          /\ MayRequest
          /\ Routed(r, "POST /api/slotAttente")
          /\ PostSlotAttente(1, r) /\ ObserveNth(1)
    \/ Slot1Snap(1) /\ ObserveNth(1)
    \/ Slot2Snap(1) /\ ObserveNth(1)
    \/ SlotSet(1) /\ ObserveNth(1)
    \/ MayRequest /\ GetSlotAttenteReset(1, ResetCall) /\ ObserveNth(1)
    \/ ResetListed(1) /\ ObserveNth(1)
    \/ ResetCommitted(1) /\ ObserveNth(1)
    \/ \E r \in AttenteListCalls :
          /\ MayRequest
          /\ Routed(r, "GET /api/slotAttente")
          /\ GetSlotAttente(1, r) /\ ObserveNth(1)
    \/ SlotListed(1) /\ ObserveNth(1)

SpecPools == InitPools /\ [][NextPools]_vars

(***************************************************************************)
(* SpecOverlap: two callers that create repairs, their requests            *)
(* overlapping at every await of the handler.  The observer records every  *)
(* answered request with the store as the answer left it.                  *)
(***************************************************************************)
\* The creation r is the one caller p sends.
OwnCall(p, r) == r.body.description = <<"A", "B">>[p]

\* The callers may send one more request.
MayOverlap == Len(history) + Cardinality({q \in Procs : ~Free(q)}) < MaxCalls

NextOverlap ==
    \E p \in Procs :
        \/ \E r \in OverlapCalls :
              /\ MayOverlap
              /\ OwnCall(p, r)
              /\ Routed(r, "POST /api/reparations")
              /\ PostReparations(p, r) /\ Record(p)
        \/ ReparationsSnapshot(p) /\ Record(p)
        \/ CreatedGet(p) /\ Record(p)
        \/ CreatedRead(p) /\ Record(p)

SpecOverlap == Init /\ [][NextOverlap]_vars

(***************************************************************************)
(* Vocabulary of the properties                                            *)
(***************************************************************************)
Pools == {"slotReparation", "slotAttente"}

\* The canonical slot identities of a pool, in ascending order.
PoolIds(pool) == IF pool = "slotReparation" THEN <<"1", "2", "3">> ELSE <<"1", "2">>

\* The handler that claims a slot of the pool.
AssignHandler(pool) ==
    IF pool = "slotReparation" THEN "POST /api/slotReparation/assign"
    ELSE "POST /api/slotAttente"

\* The handler that releases a slot of the pool.
ReleaseHandler(pool) ==
    IF pool = "slotReparation" THEN "DELETE /api/slotReparation/:id"
    ELSE "DELETE /api/slotAttente/:id"

\* The answer of an assign that found no slot.
Exhausted(pool) ==
    IF pool = "slotReparation"
    THEN Err(400, "Les trois slots sont déjà occupés")
    ELSE Err(409, "Aucun slot d'attente disponible (1 et 2 déjà occupés)")

\* A slot is free iff its document does not exist or its occupant reference
\* is absent or empty.
SlotIsFree(col, id) == id \notin DOMAIN col \/ ~Truthy(CurrentRep(col[id]))

\* The store as the k-th answered request found it.
DbBefore(k) == IF k = 1 THEN EmptyDb ELSE history[k - 1].db

\* The k-th answered request is a well-formed assign on the pool.
IsAssign(k, pool) ==
    /\ history[k].handler = AssignHandler(pool)
    /\ history[k].response.error \notin
           {"idReparation est requis", "idReparation et startTime sont requis"}

\* The k-th answered request is a release of slot id of the pool.
IsRelease(k, pool, id) ==
    /\ history[k].handler = ReleaseHandler(pool)
    /\ history[k].request.path[3] = id

\* The answered requests on the pool, in order.
PoolHistory(pool) == SelectSeq(history, LAMBDA e : e.request.path[2] = pool)

\* The answer of a successful assign names the n-th slot of the pool.
AssignedSlot(response, pool, n) ==
    /\ response.status = 200
    /\ response.error = ""
    /\ response.id = PoolIds(pool)[n]
    /\ response.slotNumber = n

\* The positions of the pool's free slots in a collection.
FreePositions(col, pool) ==
    {n \in 1..Len(PoolIds(pool)) : SlotIsFree(col, PoolIds(pool)[n])}

\* The position of slot id in the pool.
Position(pool, id) == CHOOSE n \in 1..Len(PoolIds(pool)) : PoolIds(pool)[n] = id

(***************************************************************************)
(* C1: in document-store mode, from an empty pool and without overlapping  *)
(* requests, the successive assigns on a pool are answered with its slots  *)
(* in ascending order (repair pool 1, 2, 3; waiting pool 1, 2) and the     *)
(* assign after the last slot is answered with the pool-exhausted error.   *)
(***************************************************************************)
\* The first n answered requests on the pool are well-formed assigns that
\* carry pairwise distinct references.
AssignsOnly(pool, n) ==
    LET h == PoolHistory(pool)
    IN  /\ n <= Len(h)
        /\ \A k \in 1..n :
              /\ h[k].handler = AssignHandler(pool)
              /\ h[k].response.error \notin
                     {"idReparation est requis", "idReparation et startTime sont requis"}
        /\ \A j, k \in 1..n :
              j # k => h[j].request.body.idReparation # h[k].request.body.idReparation

C1_AscendingThenExhausted ==
    useFirebase =>
        \A pool \in Pools :
            \A n \in 1..Len(PoolHistory(pool)) :
                AssignsOnly(pool, n) =>
                    IF n <= Len(PoolIds(pool))
                    THEN AssignedSlot(PoolHistory(pool)[n].response, pool, n)
                    ELSE PoolHistory(pool)[n].response = Exhausted(pool)

\* Four assigns on the repair pool: slots 1, 2, 3 and then the failure.
C1_Witness ==
    /\ useFirebase
    /\ AssignsOnly("slotReparation", 4)
    /\ AssignedSlot(history[3].response, "slotReparation", 3)
    /\ history[4].response = Exhausted("slotReparation")

\* Three assigns on the waiting pool: positions 1, 2 and then the failure.
C1_WitnessAttente ==
    /\ useFirebase
    /\ AssignsOnly("slotAttente", 3)
    /\ AssignedSlot(history[2].response, "slotAttente", 2)
    /\ history[3].response = Exhausted("slotAttente")

(***************************************************************************)
(* C2: when two assigns with distinct references overlap on a pool with    *)
(* one free slot, both can read that slot as free and both write it.  The  *)
(* later write wins: after it the slot holds the reference of the later    *)
(* writer only, the reference of the earlier writer has lost that slot     *)
(* (and is in no slot when it held no other), and each of the two is       *)
(* answered success with that same slot.                                   *)
(***************************************************************************)
\* The reference a caller's request carries.
RefOf(p) == Field(req[p].request.body, "idReparation")

\* The slots of the collection a reference occupies.
SlotsOf(col, ref) == {id \in DOMAIN col : CurrentRep(col[id]) = ref}

\* Caller p has written the n-th slot of the pool and is not yet answered.
HasWritten(p, pool, n) ==
    /\ req[p].handler = AssignHandler(pool)
    /\ req[p].pc \in {"set", "slotSet"}
    /\ req[p].i = n

\* The step is the write of the n-th slot of the pool by caller p.
Writes(p, pool, n) ==
    /\ req[p].handler = AssignHandler(pool)
    /\ req[p].pc \notin {"set", "slotSet"}
    /\ req'[p].pc \in {"set", "slotSet"}
    /\ req'[p].i = n

C2_LastWriterWins ==
    [][\A p \in Procs : \A pool \in Pools : \A n \in 1..Len(PoolIds(pool)) :
          /\ \A q \in Procs \ {p} :
                (Writes(p, pool, n) /\ HasWritten(q, pool, n) /\ RefOf(p) # RefOf(q)) =>
                    /\ SlotsOf(db'[pool], RefOf(p)) =
                           SlotsOf(db[pool], RefOf(p)) \cup {PoolIds(pool)[n]}
                    /\ SlotsOf(db'[pool], RefOf(q)) =
                           SlotsOf(db[pool], RefOf(q)) \ {PoolIds(pool)[n]}
          /\ (HasWritten(p, pool, n) /\ req'[p] # req[p]) =>
                /\ req'[p].pc = "done"
                /\ AssignedSlot(res'[p], pool, n)
      ]_vars

\* Both callers read the last free slot of the pool as free and both have
\* written it; the slot holds one of the two references and the other
\* reference is in no slot of the pool.
BothWrote(pool) ==
    LET n == Len(PoolIds(pool))
        id == PoolIds(pool)[n]
    IN  /\ useFirebase
        /\ HasWritten(1, pool, n) /\ HasWritten(2, pool, n)
        /\ RefOf(1) # RefOf(2)
        /\ \A p \in Procs : RepairSlotFree(req[p].snap) /\ req[p].snap.id = id
        /\ FreePositions(db[pool], pool) = {}
        /\ \E p \in Procs :
              /\ id \in SlotsOf(db[pool], RefOf(p))
              /\ \A q \in Procs \ {p} : SlotsOf(db[pool], RefOf(q)) = {}

C2_Witness == BothWrote("slotReparation")

C2_WitnessAttente == BothWrote("slotAttente")

(***************************************************************************)
(* C3: an assign that finds every slot of its pool occupied is answered    *)
(* with the pool-exhausted error (400 on the repair pool, 409 on the       *)
(* waiting pool) and writes nothing: the documents of both pools are the   *)
(* same after the request as before it.                                    *)
(***************************************************************************)
\* The k-th answered request is an assign on a pool without a free slot.
AssignOnFullPool(k, pool) ==
    /\ IsAssign(k, pool)
    /\ FreePositions(DbBefore(k)[pool], pool) = {}

C3_ExhaustedWritesNothing ==
    useFirebase =>
        \A pool \in Pools :
            \A k \in 1..Len(history) :
                AssignOnFullPool(k, pool) =>
                    /\ history[k].response = Exhausted(pool)
                    /\ history[k].response.status =
                           (IF pool = "slotAttente" THEN 409 ELSE 400)
                    /\ history[k].db = DbBefore(k)

C3_Witness ==
    /\ useFirebase
    /\ \E k \in 1..Len(history) :
          /\ AssignOnFullPool(k, "slotAttente")
          /\ history[k].response.status = 409

C3_WitnessReparation ==
    /\ useFirebase
    /\ \E k \in 1..Len(history) :
          /\ AssignOnFullPool(k, "slotReparation")
          /\ history[k].response.status = 400

(***************************************************************************)
(* C4: without overlapping requests, the first assign on a pool after a    *)
(* release of its slot k is answered with the lowest-numbered free slot,   *)
(* which is never numbered higher than k and is k when every slot below k  *)
(* is occupied.                                                            *)
(***************************************************************************)
\* The j-th answered request is the first assign on the pool after the i-th.
NextAssignAfter(i, j, pool) ==
    /\ i < j
    /\ IsAssign(j, pool)
    /\ \A m \in (i + 1)..(j - 1) : ~IsAssign(m, pool)

C4_ReleasedSlotReused ==
    \A pool \in Pools :
        \A i, j \in 1..Len(history) :
            \A id \in Range(PoolIds(pool)) :
                ( /\ IsRelease(i, pool, id)
                  /\ history[i].response.status = 200
                  /\ NextAssignAfter(i, j, pool) ) =>
                    LET free == FreePositions(DbBefore(j)[pool], pool)
                        low == CHOOSE n \in free : \A m \in free : n <= m
                    IN  /\ free # {}
                        /\ AssignedSlot(history[j].response, pool, low)
                        /\ low <= Position(pool, id)
                        /\ (\A m \in 1..(Position(pool, id) - 1) : m \notin free)
                               => low = Position(pool, id)

\* Slot 2 of the repair pool is released while slot 1 is occupied and slot 3
\* is free; the next assign takes slot 2 again, not slot 3.
C4_Witness ==
    \E i, j \in 1..Len(history) :
        /\ IsRelease(i, "slotReparation", "2")
        /\ history[i].response.status = 200
        /\ NextAssignAfter(i, j, "slotReparation")
        /\ FreePositions(DbBefore(j).slotReparation, "slotReparation") = {2, 3}
        /\ AssignedSlot(history[j].response, "slotReparation", 2)

(***************************************************************************)
(* C5: in document-store mode a release is always answered success,        *)
(* whatever occupies the slot; afterwards the pool has no document with    *)
(* that id and every other document is as before; when the document did    *)
(* not exist, the store is unchanged and the answer is still success.      *)
(***************************************************************************)
\* Collection `after` is collection `before` without document id.
WithoutDoc(before, after, id) ==
    /\ DOMAIN after = DOMAIN before \ {id}
    /\ \A k \in DOMAIN after : after[k] = before[k]

C5_ReleaseUnconditional ==
    useFirebase =>
        \A pool \in Pools :
            \A k \in 1..Len(history) :
                history[k].handler = ReleaseHandler(pool) =>
                    /\ history[k].response.status = 200
                    /\ history[k].response.error = ""
                    /\ WithoutDoc(DbBefore(k)[pool], history[k].db[pool],
                                  history[k].request.path[3])
                    /\ \A other \in Pools \ {pool} :
                          history[k].db[other] = DbBefore(k)[other]
                    /\ history[k].request.path[3] \notin DOMAIN DbBefore(k)[pool]
                          => history[k].db = DbBefore(k)

\* A release of an occupied slot and a release of a slot without document,
\* both answered success.
C5_Witness ==
    /\ useFirebase
    /\ \E k \in 1..Len(history) :
          /\ history[k].handler = ReleaseHandler("slotAttente")
          /\ history[k].request.path[3] \in DOMAIN DbBefore(k).slotAttente
          /\ history[k].response.status = 200
    /\ \E k \in 1..Len(history) :
          /\ history[k].handler = ReleaseHandler("slotReparation")
          /\ history[k].request.path[3] \notin DOMAIN DbBefore(k).slotReparation
          /\ history[k].response.status = 200

(***************************************************************************)
(* C6: in document-store mode and without overlapping requests, a          *)
(* GET /api/slotAttente/reset request on a waiting pool with M occupied    *)
(* slots deletes those M documents and answers deleted = M, and a          *)
(* GET /api/slotAttente that follows it returns an empty list.             *)
(***************************************************************************)
\* The k-th answered request is GET /api/slotAttente/reset.
IsResetRequest(k) == history[k].request = ResetCall

\* The k-th answered request is GET /api/slotAttente.
IsListRequest(k) ==
    /\ history[k].request.method = "GET"
    /\ history[k].request.path = <<"api", "slotAttente">>

C6_ResetEmptiesPool ==
    useFirebase =>
        \A k \in 1..Len(history) :
            LET M == Cardinality(DOMAIN DbBefore(k).slotAttente)
            IN  (IsResetRequest(k) /\ M >= 1) =>
                    /\ history[k].response.status = 200
                    /\ history[k].response.deleted = M
                    /\ history[k].db.slotAttente = EmptyCol
                    /\ (k < Len(history) /\ IsListRequest(k + 1)) =>
                           history[k + 1].response.list = {}

(***************************************************************************)
(* C7: the reset handler of the waiting pool deletes the documents it      *)
(* listed in one step (all of them, and no other document) and reports the *)
(* number listed.  It is not isolated from a claim written between its     *)
(* listing and its commit: written on a listed slot, the claim is erased   *)
(* by the commit although the claimant is answered success; written on a   *)
(* slot that was not listed, it survives the commit, so the pool is not    *)
(* empty right after the reset succeeded.                                  *)
(***************************************************************************)
\* The waiting pool before the k-th logged step.
AttenteBefore(k) == IF k = 1 THEN EmptyCol ELSE history[k - 1].db.slotAttente

\* The waiting pool after the k-th logged step.
AttenteAfter(k) == history[k].db.slotAttente

\* Step j is the listing and step k the commit of one reset.
ResetSteps(j, k) ==
    /\ j < k
    /\ history[j].pc = "resetListed"
    /\ history[k].pc = "resetCommitted"
    /\ history[k].proc = history[j].proc
    /\ \A m \in (j + 1)..(k - 1) : history[m].proc # history[j].proc

\* Step w is the write of a claim.
ClaimWrite(w) == history[w].pc = "slotSet"

\* The slot a claim write wrote.
WrittenSlot(w) == PoolIds("slotAttente")[history[w].i]

\* Step a is the next step of the caller of step k.
NextStepOf(k, a) ==
    /\ k < a
    /\ history[a].proc = history[k].proc
    /\ \A m \in (k + 1)..(a - 1) : history[m].proc # history[k].proc

C7_ResetNotIsolated ==
    \A j \in 1..Len(history) : \A k \in 1..Len(history) :
        ResetSteps(j, k) =>
            LET listed == history[j].docs
            IN  /\ DOMAIN AttenteAfter(k) = DOMAIN AttenteBefore(k) \ listed
                /\ \A id \in DOMAIN AttenteAfter(k) : AttenteAfter(k)[id] = AttenteBefore(k)[id]
                /\ \A a \in 1..Len(history) :
                      NextStepOf(k, a) =>
                          /\ history[a].pc = "done"
                          /\ history[a].response.status = 200
                          /\ history[a].response.deleted = Cardinality(listed)
                /\ \A w \in (j + 1)..(k - 1) :
                      ClaimWrite(w) =>
                          /\ IF WrittenSlot(w) \in listed
                             THEN WrittenSlot(w) \notin DOMAIN AttenteAfter(k)
                             ELSE WrittenSlot(w) \in DOMAIN AttenteBefore(k) =>
                                      /\ WrittenSlot(w) \in DOMAIN AttenteAfter(k)
                                      /\ AttenteAfter(k)[WrittenSlot(w)] =
                                             AttenteBefore(k)[WrittenSlot(w)]
                          /\ \A a \in 1..Len(history) :
                                NextStepOf(w, a) =>
                                    AssignedSlot(history[a].response, "slotAttente",
                                                 history[w].i)

\* A claim written on a listed slot between the listing and the commit: the
\* commit has erased it, then the claimant is answered success.
C7_Witness ==
    \E j \in 1..Len(history) : \E k \in 1..Len(history) :
        /\ ResetSteps(j, k)
        /\ \E w \in (j + 1)..(k - 1) :
              /\ ClaimWrite(w)
              /\ WrittenSlot(w) \in history[j].docs
              /\ CurrentRep(AttenteBefore(k)[WrittenSlot(w)]) = history[w].ref
              /\ AttenteAfter(k) = EmptyCol
              /\ \E a \in (k + 1)..Len(history) :
                    /\ NextStepOf(w, a)
                    /\ AssignedSlot(history[a].response, "slotAttente", history[w].i)
                    /\ history[w].ref \notin {CurrentRep(AttenteAfter(a)[id]) : id \in DOMAIN AttenteAfter(a)}

\* A claim written on a slot that was not listed: the reset is answered
\* success and the pool holds the claim.
C7_WitnessSurvives ==
    \E j \in 1..Len(history) : \E k \in 1..Len(history) :
        /\ ResetSteps(j, k)
        /\ \E w \in (j + 1)..(k - 1) :
              /\ ClaimWrite(w)
              /\ WrittenSlot(w) \notin history[j].docs
              /\ \E a \in (k + 1)..Len(history) :
                    /\ NextStepOf(k, a)
                    /\ history[a].response.status = 200
                    /\ history[a].response.deleted = 1
                    /\ WrittenSlot(w) \in DOMAIN AttenteAfter(a)
                    /\ CurrentRep(AttenteAfter(a)[WrittenSlot(w)]) = history[w].ref

(***************************************************************************)
(* C8: the two pools are independent.  No step of an assign, a release or  *)
(* a reset on one pool changes a document of the other pool, and one       *)
(* reference can occupy a repair slot and a waiting slot at the same time. *)
(***************************************************************************)
\* The pool other than the given one.
OtherPool(pool) == IF pool = "slotReparation" THEN "slotAttente" ELSE "slotReparation"

\* The step is taken by the request of caller p, a request on the pool.
StepOn(p, pool) ==
    /\ req'[p] # req[p]
    /\ req'[p].request.path[2] = pool

C8_PoolsIndependent ==
    [][\A p \in Procs : \A pool \in Pools :
          StepOn(p, pool) => db'[OtherPool(pool)] = db[OtherPool(pool)]
      ]_vars

\* One reference occupies a slot of each pool.
C8_Witness ==
    /\ useFirebase
    /\ \E ref \in TwoRefs :
          /\ SlotsOf(db.slotReparation, ref) # {}
          /\ SlotsOf(db.slotAttente, ref) # {}

\* A reset has emptied the waiting pool and the repair pool is still full.
C8_WitnessReset ==
    /\ useFirebase
    /\ \E p \in Procs :
          /\ req[p].handler = "GET /api/slotAttente/reset"
          /\ req[p].pc = "done"
          /\ res[p].deleted = 2
    /\ db.slotAttente = EmptyCol
    /\ FreePositions(db.slotReparation, "slotReparation") = {}

(***************************************************************************)
(* C9: in fallback mode every operation that needs the document store is   *)
(* answered 400 and leaves the in-memory dataset and the flat file as they *)
(* were: assign, create, get-by-id and release of a slot on both pools,    *)
(* and the creation of vehicles, owners, repair-part completions and       *)
(* payments.  Listing a slot pool is answered with an empty list.          *)
(***************************************************************************)
\* The observer holds a request that has been answered.
Answered == Len(history) = 1 /\ history[1].pc = "done"

\* The request is one of the operations that exist in the document store only.
StoreOnlyRequest(r) ==
    \/ /\ r.method = "POST"
       /\ r.path \in {<<"api", "voitures">>, <<"api", "proprietaires">>,
                      <<"api", "finReparationPieces">>, <<"api", "historiquePaiement">>,
                      <<"api", "slotReparation">>, <<"api", "slotReparation", "assign">>,
                      <<"api", "slotAttente">>}
    \/ /\ r.method \in {"GET", "DELETE"}
       /\ Len(r.path) = 3
       /\ r.path[2] \in Pools

\* The request lists a slot pool.
PoolListRequest(r) ==
    /\ r.method = "GET"
    /\ r.path \in {<<"api", "slotReparation">>, <<"api", "slotAttente">>}

C9_FallbackDenied ==
    (~useFirebase /\ Answered) =>
        LET e == history[1]
        IN  /\ StoreOnlyRequest(e.request) =>
                  /\ e.response.status = 400
                  /\ e.after.seedData = e.before.seedData
                  /\ e.after.seedFile = e.before.seedFile
            /\ PoolListRequest(e.request) =>
                  /\ e.response.status = 200
                  /\ e.response.list = {}
                  /\ e.after.seedData = e.before.seedData
                  /\ e.after.seedFile = e.before.seedFile

\* A well-formed owner creation is denied while the dataset holds entries.
C9_Witness ==
    /\ ~useFirebase
    /\ Answered
    /\ history[1].request \in ProprietaireCalls
    /\ history[1].response = Err(400, "Firebase non disponible")
    /\ DOMAIN history[1].before.seedData # {}

\* A slot release is denied while the dataset holds entries.
C9_WitnessRelease ==
    /\ ~useFirebase
    /\ Answered
    /\ history[1].request.method = "DELETE"
    /\ history[1].response = Err(400, "Firebase non disponible")
    /\ DOMAIN history[1].before.seedData # {}

(***************************************************************************)
(* C10: in both modes, a create request whose body lacks a required field  *)
(* is answered 400 before any store operation: no read or write of the     *)
(* document store is issued and the document store, the fallback dataset   *)
(* and the flat file are as the request found them.                        *)
(***************************************************************************)
\* The body fields a create endpoint requires.
RequiredFields(path) ==
    CASE path = <<"api", "voitures">> -> {"marque", "proprietaireId", "typeId"}
      [] path = <<"api", "proprietaires">> -> {"uid", "email", "nom", "prenom"}
      [] path = <<"api", "reparations">> -> {"voiture"}
      [] path = <<"api", "finReparationPieces">> ->
             {"reparation", "piece", "dateFinReparation"}
      [] path = <<"api", "historiquePaiement">> ->
             {"reparationId", "clientId", "montant", "datePaiement"}
      [] path = <<"api", "pieces">> -> {"nomPieces", "prix", "typeId"}
      [] path = <<"api", "typesPieces">> -> {"nomTypePieces"}
      [] path = <<"api", "slotReparation">> -> {"idReparation", "startTime"}
      [] path = <<"api", "slotReparation", "assign">> -> {"idReparation"}
      [] path = <<"api", "slotAttente">> -> {"idReparation", "startTime"}
      [] OTHER -> {}

\* The request is a create request that lacks a required field (for a
\* repair: the vehicle, or the _id of the vehicle).
LacksRequired(r) ==
    /\ r.method = "POST"
    /\ \/ \E f \in RequiredFields(r.path) : f \notin DOMAIN r.body
       \/ /\ r.path = <<"api", "reparations">>
          /\ "voiture" \in DOMAIN r.body
          /\ "_id" \notin DOMAIN r.body.voiture

C10_ValidationFirst ==
    (Answered /\ LacksRequired(history[1].request)) =>
        /\ history[1].response.status = 400
        /\ history[1].ops = 0
        /\ history[1].after = history[1].before

\* In document-store mode a part without price is refused.
C10_Witness ==
    /\ useFirebase
    /\ Answered
    /\ history[1].request.path = <<"api", "pieces">>
    /\ "prix" \notin DOMAIN history[1].request.body
    /\ history[1].response.status = 400
    /\ history[1].before.db # EmptyDb

\* In fallback mode a repair whose vehicle has no _id is refused and the
\* loaded dataset is as it was.
C10_WitnessFallback ==
    /\ ~useFirebase
    /\ Answered
    /\ history[1].request.path = <<"api", "reparations">>
    /\ "voiture" \in DOMAIN history[1].request.body
    /\ history[1].response.status = 400
    /\ DOMAIN history[1].before.seedData # {}
    /\ history[1].after.seedData = history[1].before.seedData

(***************************************************************************)
(* Vocabulary of the reads                                                 *)
(***************************************************************************)
\* The handlers that read one entity by its id.
EntityByIdHandlers ==
    {"GET /api/voitures/:id", "GET /api/clients/:id", "GET /api/proprietaires/:id",
     "GET /api/reparations/:id", "GET /api/finReparationPieces/:id",
     "GET /api/historiquePaiement/:id", "GET /api/pieces/:id",
     "GET /api/typesPieces/:id", "GET /api/notifications/:id"}

\* No document of the store and no entry of the dataset has the id.
MatchesNothing(stores, id) ==
    /\ \A c \in DOMAIN stores.db : id \notin DOMAIN stores.db[c]
    /\ \A c \in DOMAIN stores.seedData :
          \A k \in 1..Len(stores.seedData[c]) :
             \A f \in DOMAIN stores.seedData[c][k] \cap {"_id", "id", "code", "idReparation"} :
                stores.seedData[c][k][f] # id

(***************************************************************************)
(* C11: for every entity type and in both modes, the request that reads    *)
(* one entity by an id no entity has is answered 404; so it is in fallback *)
(* mode when the dataset is empty because the flat file was not loaded.    *)
(***************************************************************************)
C11_UnknownIdIs404 ==
    (/\ Answered
     /\ history[1].handler \in EntityByIdHandlers
     /\ MatchesNothing(history[1].before, history[1].request.path[3]))
        => history[1].response.status = 404

(***************************************************************************)
(* C12: whenever a store operation fails while a request is handled, the   *)
(* request is answered 500 with the message of the error, never success:   *)
(* a rejected document-store call at any step of an assign is answered 500 *)
(* and no slot is modified, and a fallback mutation whose rewrite of the    *)
(* flat file failed is answered 500.                                       *)
(***************************************************************************)
\* The last request changed the dataset and the file did not take it.
FileWriteFailed ==
    /\ ~useFirebase
    /\ history[1].after.seedData # history[1].before.seedData
    /\ history[1].after.seedFile # history[1].after.seedData

\* A call of the document store rejected while the last request was handled.
StoreCallFailed == history[1].response.error = StoreError

C12_StoreFailureIs500 ==
    Answered =>
        /\ StoreCallFailed =>
              /\ history[1].response.status = 500
              /\ history[1].after.db = history[1].before.db
        /\ FileWriteFailed =>
              /\ history[1].response.status = 500
              /\ history[1].response.error # ""

(***************************************************************************)
(* Vocabulary of the runs on the parts                                     *)
(***************************************************************************)
IsPartCreate(h) == h.handler = "POST /api/pieces"

IsPartDelete(h) == h.handler = "DELETE /api/pieces/:id"

IsPartCall(h) == IsPartCreate(h) \/ IsPartDelete(h)

\* The number of part creations among the first k answered requests.
PartCreates(k) == Cardinality({j \in 1..k : IsPartCreate(history[j])})

\* No deletion of a part was answered before the k-th request.
NoPartDeleteBefore(k) == \A j \in 1..(k - 1) : ~IsPartDelete(history[j])

\* The ids of the first three parts.
FirstPartIds == <<"PR-001", "PR-002", "PR-003">>

(***************************************************************************)
(* C13: from an empty collection of parts, three successive creations of   *)
(* a part (no two requests overlapping, no deletion in between) are        *)
(* answered with the ids PR-001, PR-002 and PR-003, in both modes.         *)
(***************************************************************************)
C13_FirstThreePartIds ==
    \A k \in 1..Len(history) :
        (/\ IsPartCreate(history[k])
         /\ NoPartDeleteBefore(k)
         /\ PartCreates(k) <= Len(FirstPartIds))
            => /\ history[k].response.status = 200
               /\ history[k].response.id = FirstPartIds[PartCreates(k)]

\* Three parts were created in fallback mode and answered PR-001..PR-003.
C13_Witness ==
    /\ ~useFirebase
    /\ Len(history) >= 3
    /\ \A k \in 1..3 : /\ IsPartCreate(history[k])
                       /\ history[k].response.id = FirstPartIds[k]
    /\ Len(history[3].seedData.piecesReparables) = 3

\* The same in document-store mode.
C13_WitnessDocStore ==
    /\ useFirebase
    /\ Len(history) >= 3
    /\ \A k \in 1..3 : /\ IsPartCreate(history[k])
                       /\ history[k].response.id = FirstPartIds[k]
    /\ DOMAIN history[3].db.piecesReparables = Range(FirstPartIds)

(***************************************************************************)
(* C14: after three parts are created, the second is deleted and one more  *)
(* is created, the document store mints the id after the greatest one seen *)
(* (PR-004) and the fallback dataset mints its length plus one (PR-003).   *)
(***************************************************************************)
\* The run of C14: create, create, create, delete PR-002, create.
CreateDeleteCreate ==
    LET parts == SelectSeq(history, IsPartCall)
    IN  /\ Len(parts) = 5
        /\ \A k \in {1, 2, 3, 5} : IsPartCreate(parts[k])
        /\ IsPartDelete(parts[4])
        /\ parts[4].request.path[3] = "PR-002"
        /\ parts[4].response.status = 200

C14_MintAfterDelete ==
    CreateDeleteCreate =>
        LET parts == SelectSeq(history, IsPartCall)
        IN  parts[5].response.id = IF useFirebase THEN "PR-004" ELSE "PR-003"

(***************************************************************************)
(* C15: within a collection (repairs, parts, part types) ids stay unique   *)
(* after any sequence of non-overlapping creations and deletions, in       *)
(* either mode: a creation never takes the id of an existing entity, so it *)
(* never replaces one.                                                     *)
(***************************************************************************)
\* The collection a create handler writes.
CreatedCol(h) ==
    CASE h.handler = "POST /api/pieces" -> "piecesReparables"
      [] h.handler = "POST /api/typesPieces" -> "typesPieces"
      [] h.handler = "POST /api/reparations" -> "reparations"
      [] OTHER -> ""

\* The ids of the entities of a collection, in the store of the mode.
IdsOf(d, data, col) ==
    IF useFirebase THEN DOMAIN d[col]
    ELSE {SeedList(data, col)[k]._id : k \in 1..Len(SeedList(data, col))}

\* The ids of a collection when the k-th request arrived.
IdsBefore(k, col) ==
    IF k = 1 THEN IdsOf(PiecesDb, PiecesSeed, col)
    ELSE IdsOf(history[k - 1].db, history[k - 1].seedData, col)

\* No two entities of a list of the dataset have the same id.
DistinctIds(list) ==
    \A i, j \in 1..Len(list) : list[i]._id = list[j]._id => i = j

C15_IdsUnique ==
    /\ \A col \in {"reparations", "piecesReparables", "typesPieces"} :
          DistinctIds(SeedList(seedData, col))
    /\ \A k \in 1..Len(history) :
          (CreatedCol(history[k]) # "" /\ history[k].response.status = 200)
              => history[k].response.id \notin IdsBefore(k, CreatedCol(history[k]))

(***************************************************************************)
(* C16: in fallback mode, after every request that changes the in-memory   *)
(* dataset and is answered success (repair create, repair status update,   *)
(* bulk status transition, part create, update and delete, part-type       *)
(* create, completions reset), the content of the flat file equals the     *)
(* in-memory dataset.                                                      *)
(***************************************************************************)
\* The last request changed the in-memory dataset and was answered success.
ChangedDataset ==
    /\ Answered
    /\ ~useFirebase
    /\ history[1].response.status = 200
    /\ history[1].after.seedData # history[1].before.seedData

C16_FileMirrorsDataset ==
    ChangedDataset => history[1].after.seedFile = history[1].after.seedData

(***************************************************************************)
(* C17: in fallback mode, after any sequence of creations, deletions and   *)
(* resets, every per-collection count of GET /api/health equals the number *)
(* of entities the list endpoint of that collection returns.               *)
(***************************************************************************)
\* The collection of the dataset the list endpoint of each counted
\* collection sends (GET /api/pieces sends seedData.piecesReparables).
ListedCollection ==
    [voitures |-> "voitures", clients |-> "clients",
     proprietaires |-> "proprietaires", reparations |-> "reparations",
     finReparationPieces |-> "finReparationPieces", pieces |-> "piecesReparables",
     notifications |-> "notifications"]

HealthAnswered ==
    /\ Answered
    /\ ~useFirebase
    /\ history[1].handler = "GET /api/health"

C17_HealthCountsMatchLists ==
    HealthAnswered =>
        /\ history[1].response.status = 200
        /\ DOMAIN history[1].response.dataAvailable = DOMAIN ListedCollection
        /\ \A key \in DOMAIN ListedCollection :
              history[1].response.dataAvailable[key]
                  = Listed(history[1].after.seedData, ListedCollection[key]).count

\* The health report was answered after a part was created, one deleted and
\* one more created (two parts now share an id).
C17_Witness ==
    /\ HealthAnswered
    /\ Sent = 4
    /\ Len(SeedList(seedData, "piecesReparables")) = 2
    /\ ~DistinctIds(SeedList(seedData, "piecesReparables"))
    /\ history[1].response.dataAvailable.pieces = 2

(***************************************************************************)
(* C19: when no requests overlap, after a bulk status transition (PUT or   *)
(* GET /api/reparations/statut/en-cours) every repair has the status       *)
(* EN_COURS, no repair was added or removed, no other field of a repair    *)
(* changed, and the modified count reported is the number of repairs; a    *)
(* second run changes nothing.                                             *)
(***************************************************************************)
EnCoursAnswered ==
    /\ Answered
    /\ history[1].handler \in {"PUT /api/reparations/statut/en-cours",
                               "GET /api/reparations/statut/en-cours"}

\* A repair with the status EN_COURS and its other fields as they were.
EnCours(e) == Merge(e, [statut |-> "EN_COURS"])

\* Every repair of the store of the mode is the repair it was, EN_COURS.
TransitionedDocs(before, after) ==
    /\ DOMAIN after = DOMAIN before
    /\ \A k \in DOMAIN before : after[k] = EnCours(before[k])
    /\ \A k \in DOMAIN after : after[k].statut = "EN_COURS"

TransitionedList(before, after) ==
    /\ Len(after) = Len(before)
    /\ \A k \in 1..Len(before) : after[k] = EnCours(before[k])
    /\ \A k \in 1..Len(after) : after[k].statut = "EN_COURS"

C19_BulkEnCours ==
    EnCoursAnswered =>
        LET before == history[1].before
            after == history[1].after
        IN  /\ history[1].response.status = 200
            /\ IF useFirebase
               THEN /\ TransitionedDocs(before.db.reparations, after.db.reparations)
                    /\ history[1].response.modified = Size(after.db.reparations)
                    /\ (\A k \in DOMAIN before.db.reparations :
                           before.db.reparations[k].statut = "EN_COURS")
                          => after.db = before.db
               ELSE /\ TransitionedList(SeedList(before.seedData, "reparations"),
                                        SeedList(after.seedData, "reparations"))
                    /\ history[1].response.modified
                          = Len(SeedList(after.seedData, "reparations"))
                    /\ (\A k \in 1..Len(SeedList(before.seedData, "reparations")) :
                           SeedList(before.seedData, "reparations")[k].statut
                               = "EN_COURS")
                          => after.seedData = before.seedData

\* A second run in fallback mode: two repairs, both EN_COURS already.
C19_Witness ==
    /\ EnCoursAnswered
    /\ ~useFirebase
    /\ Len(SeedList(history[1].before.seedData, "reparations")) >= 2
    /\ \A k \in 1..Len(SeedList(history[1].before.seedData, "reparations")) :
          SeedList(history[1].before.seedData, "reparations")[k].statut = "EN_COURS"
    /\ history[1].response.modified >= 2

\* A first run in document-store mode: two repairs, neither EN_COURS before.
C19_WitnessDocStore ==
    /\ EnCoursAnswered
    /\ useFirebase
    /\ Size(history[1].before.db.reparations) >= 2
    /\ \A k \in DOMAIN history[1].before.db.reparations :
          history[1].before.db.reparations[k].statut # "EN_COURS"
    /\ history[1].response.modified >= 2

(***************************************************************************)
(* C18: given the same entities in the document store and in the fallback  *)
(* dataset, each filtered list endpoint (by vehicle, by repair, by client) *)
(* returns the same set of entities in both modes: exactly the entities    *)
(* whose foreign-key field equals the requested value.                     *)
(***************************************************************************)
\* The collection each filtered list reads and the foreign key it compares.
FilteredLists ==
    [h \in {"GET /api/reparations/voiture/:voitureId",
            "GET /api/finReparationPieces/reparation/:reparationId",
            "GET /api/historiquePaiement/reparation/:reparationId",
            "GET /api/historiquePaiement/client/:clientId",
            "GET /api/notifications/voiture/:voitureId"} |->
        CASE h = "GET /api/reparations/voiture/:voitureId" ->
                 [col |-> "reparations", key |-> <<"voiture", "_id">>]
          [] h = "GET /api/finReparationPieces/reparation/:reparationId" ->
                 [col |-> "finReparationPieces", key |-> <<"reparation", "_id">>]
          [] h = "GET /api/historiquePaiement/reparation/:reparationId" ->
                 [col |-> "historiquePaiement", key |-> <<"reparationId">>]
          [] h = "GET /api/historiquePaiement/client/:clientId" ->
                 [col |-> "historiquePaiement", key |-> <<"clientId">>]
          [] OTHER -> [col |-> "notifications", key |-> <<"voitureId">>]]

\* The entity holds the value under its foreign key.
RefersTo(e, key, value) ==
    /\ key[1] \in DOMAIN e
    /\ IF Len(key) = 1 THEN e[key[1]] = value
       ELSE /\ key[2] \in DOMAIN e[key[1]]
            /\ e[key[1]][key[2]] = value

\* The entities of a collection of the fallback dataset.
DatasetEntities(stores, col) == Range(SeedList(stores.seedData, col))

\* In document-store mode, the collection holds the entities of the dataset.
SameEntities(stores, col) ==
    useFirebase => Entities(stores.db[col]) = DatasetEntities(stores, col)

FilteredAnswered ==
    /\ Answered
    /\ history[1].handler \in DOMAIN FilteredLists

C18_FilteredListsAgree ==
    (/\ FilteredAnswered
     /\ SameEntities(history[1].before, FilteredLists[history[1].handler].col))
        => LET list == FilteredLists[history[1].handler]
           IN  /\ history[1].response.status = 200
               /\ history[1].response.list
                     = {e \in DatasetEntities(history[1].before, list.col) :
                           RefersTo(e, list.key, history[1].request.path[4])}

\* A filtered list of the document store that kept one entity and left one out.
C18_Witness ==
    /\ FilteredAnswered
    /\ useFirebase
    /\ SameEntities(history[1].before, FilteredLists[history[1].handler].col)
    /\ Cardinality(history[1].response.list) = 1
    /\ Cardinality(DatasetEntities(history[1].before,
                                   FilteredLists[history[1].handler].col)) = 2

\* The same in fallback mode.
C18_WitnessFallback ==
    /\ FilteredAnswered
    /\ ~useFirebase
    /\ Cardinality(history[1].response.list) = 1
    /\ Cardinality(DatasetEntities(history[1].before,
                                   FilteredLists[history[1].handler].col)) = 2

(***************************************************************************)
(* C20: under every interleaving of assign and release requests on the     *)
(* repair pool, whenever an assign writes its claim to slot k, every slot  *)
(* numbered lower than k is occupied at the moment of that write.          *)
(***************************************************************************)
\* This step is the write of the claim of caller p to the k-th slot.
AssignWrites(p, k) ==
    /\ req[p].pc = "scan"
    /\ req[p].handler = "POST /api/slotReparation/assign"
    /\ req'[p].pc = "set"
    /\ req'[p].i = k

C20_LowerSlotsOccupiedAtWrite ==
    [][\A p \in Procs : \A k \in 1..Len(slotIds) :
          AssignWrites(p, k)
              => \A j \in 1..(k - 1) : ~SlotIsFree(db.slotReparation, slotIds[j])]_vars

(***************************************************************************)
(* C25: a status update of a repair (PUT /api/reparations/:id with a       *)
(* status) whose id matches no repair is answered 404 and creates or       *)
(* changes no repair, in document-store mode and in fallback mode alike.   *)
(***************************************************************************)
\* The last request is a status update, with a status, of a repair that the
\* store of the mode does not hold.
UnknownRepairUpdate ==
    /\ Answered
    /\ history[1].handler = "PUT /api/reparations/:id"
    /\ Truthy(Field(history[1].request.body, "statut"))
    /\ history[1].request.path[3]
          \notin IdsOf(history[1].before.db, history[1].before.seedData, "reparations")

C25_UnknownRepairUpdateIs404 ==
    UnknownRepairUpdate =>
        /\ history[1].response.status = 404
        /\ history[1].after.db.reparations = history[1].before.db.reparations
        /\ SeedList(history[1].after.seedData, "reparations")
              = SeedList(history[1].before.seedData, "reparations")

(***************************************************************************)
(* C27: in fallback mode the id minted for a new repair, a new part and a  *)
(* new part type has a numeric suffix equal to the length of that          *)
(* collection just before the creation plus one, whatever ids the          *)
(* collection already holds.                                               *)
(***************************************************************************)
\* The prefix of the ids of each collection a create handler writes.
IdPrefix ==
    [reparations |-> "REP-", piecesReparables |-> "PR-", typesPieces |-> "TP-"]

\* The last request created an entity in fallback mode.
CreatedInFallback ==
    /\ Answered
    /\ ~useFirebase
    /\ CreatedCol(history[1]) # ""
    /\ history[1].response.status = 200

\* The id whose suffix is the length of the collection plus one.
IdAfterLength(stores, col) ==
    IdPrefix[col] \o PadStart(String(Len(SeedList(stores.seedData, col)) + 1), 3, "0")

C27_FallbackIdFromLength ==
    CreatedInFallback =>
        history[1].response.id = IdAfterLength(history[1].before, CreatedCol(history[1]))

(***************************************************************************)
(* C30: in fallback mode a part update (PUT /api/pieces/:id) answered with *)
(* an error, in particular 404 because the type id matches no part type,   *)
(* leaves the part and the whole in-memory dataset as they were before the *)
(* request.                                                                *)
(***************************************************************************)
\* The last request is a part update of fallback mode answered with an error.
PartUpdateFailed ==
    /\ Answered
    /\ ~useFirebase
    /\ history[1].handler = "PUT /api/pieces/:id"
    /\ history[1].response.status >= 400

C30_FailedPartUpdateChangesNothing ==
    PartUpdateFailed => history[1].after.seedData = history[1].before.seedData

(***************************************************************************)
(* C22: a work item occupies at most one slot of a pool: after any         *)
(* sequence of assign, release and reset requests, no work-item reference  *)
(* is the occupant of two different slots of the same pool.                *)
(***************************************************************************)
\* The occupied slots of a pool hold distinct references.
OneSlotEach(col) ==
    \A a, b \in DOMAIN col :
        (/\ ~SlotIsFree(col, a)
         /\ ~SlotIsFree(col, b)
         /\ CurrentRep(col[a]) = CurrentRep(col[b])) => a = b

C22_OneSlotPerWorkItem ==
    \A k \in 1..Len(history) :
        /\ OneSlotEach(history[k].db.slotReparation)
        /\ OneSlotEach(history[k].db.slotAttente)

(***************************************************************************)
(* C21: a pool has fixed capacity: after any sequence of API requests in   *)
(* document-store mode, every slot the list endpoint of a pool returns has *)
(* one of the canonical ids of the pool (repair pool 1, 2, 3; waiting pool *)
(* 1, 2), so a pool never lists more slots than its capacity.              *)
(***************************************************************************)
\* The last request listed the slots of the pool in document-store mode.
PoolListed(pool) ==
    /\ Answered
    /\ useFirebase
    /\ history[1].handler = "GET /api/" \o pool
    /\ history[1].response.status = 200

C21_PoolListsCanonicalSlots ==
    \A pool \in {"slotReparation", "slotAttente"} :
        PoolListed(pool) =>
            /\ \A s \in history[1].response.list : s.id \in Range(PoolIds(pool))
            /\ Cardinality(history[1].response.list) <= Len(PoolIds(pool))

(***************************************************************************)
(* C23: in both pools the assign scan treats a slot as eligible when its   *)
(* document does not exist and also when its document exists with an empty *)
(* or absent occupant reference, and it claims the first such slot in      *)
(* ascending order.                                                        *)
(***************************************************************************)
\* The last request is a well-formed assign on the pool in document-store mode.
AssignAnswered(pool) ==
    /\ Answered
    /\ useFirebase
    /\ history[1].handler = AssignHandler(pool)
    /\ history[1].response.error \notin
           {"idReparation est requis", "idReparation et startTime sont requis"}

\* The lowest of a non-empty set of positions.
Lowest(positions) == CHOOSE n \in positions : \A m \in positions : n <= m

C23_FirstEligibleSlotClaimed ==
    \A pool \in Pools :
        AssignAnswered(pool) =>
            LET free == FreePositions(history[1].before.db[pool], pool)
            IN  IF free = {}
                THEN /\ history[1].response = Exhausted(pool)
                     /\ history[1].after.db = history[1].before.db
                ELSE /\ AssignedSlot(history[1].response, pool, Lowest(free))
                     /\ CurrentRep(history[1].after.db[pool][PoolIds(pool)[Lowest(free)]])
                           = history[1].request.body.idReparation

(***************************************************************************)
(* C24: the waiting-pool reset handler never deletes the reserved          *)
(* `_metadata` document of the collection and does not count it in the     *)
(* number of deleted documents it reports.                                 *)
(***************************************************************************)
\* The reset handler has answered, on a collection that held `_metadata`.
ResetWithMetadata ==
    /\ Answered
    /\ useFirebase
    /\ history[1].handler = "GET /api/slotAttente/reset"
    /\ "_metadata" \in DOMAIN history[1].before.db.slotAttente

C24_ResetKeepsMetadata ==
    ResetWithMetadata =>
        /\ "_metadata" \in DOMAIN history[1].after.db.slotAttente
        /\ history[1].response.deleted
              = Cardinality(DOMAIN history[1].before.db.slotAttente \ {"_metadata"})

(***************************************************************************)
(* C26: given the same notifications in both stores, including             *)
(* notifications that have no read field, the unread-notifications handler *)
(* returns the same set in document-store mode and in fallback mode.       *)
(***************************************************************************)
\* The handler of the unread notifications has answered, the collection of
\* the document store holding the notifications of the dataset.
UnreadAnswered ==
    /\ Answered
    /\ history[1].handler = "GET /api/notifications/unread"
    /\ SameEntities(history[1].before, "notifications")

\* The notifications of the dataset the fallback scan keeps: those whose
\* read field is not true.
UnreadOfDataset(stores) ==
    {e \in DatasetEntities(stores, "notifications") :
        ~("read" \in DOMAIN e /\ e.read = TRUE)}

C26_UnreadSameInBothModes ==
    UnreadAnswered =>
        /\ history[1].response.status = 200
        /\ history[1].response.list = UnreadOfDataset(history[1].before)

(***************************************************************************)
(* C28: no handler is shadowed by an earlier-registered route: a GET to    *)
(* the literal path /api/finReparationPieces/reset and a GET to            *)
(* /api/notifications/unread are each served by the handler registered for *)
(* that literal path, not by the `/:id` handler of the same resource       *)
(* registered before it.                                                   *)
(***************************************************************************)
\* The literal paths and the handler registered for each.
LiteralRoutes ==
    [p \in {<<"api", "finReparationPieces", "reset">>,
            <<"api", "notifications", "unread">>} |->
        "GET /api/" \o p[2] \o "/" \o p[3]]

C28_LiteralRoutesServed ==
    (/\ Answered
     /\ history[1].request.method = "GET"
     /\ history[1].request.path \in DOMAIN LiteralRoutes)
        => history[1].handler = LiteralRoutes[history[1].request.path]

(***************************************************************************)
(* C29: in document-store mode two repair creation requests never receive  *)
(* the same id, even when they overlap: after both are answered success,   *)
(* the repairs collection holds both repairs under two distinct REP- ids.  *)
(***************************************************************************)
\* The k-th answered request created a repair.
RepairCreated(k) ==
    /\ history[k].handler = "POST /api/reparations"
    /\ history[k].response.status = 200

C29_OverlappingCreatesDistinct ==
    useFirebase =>
        \A j, k \in 1..Len(history) :
            (j < k /\ RepairCreated(j) /\ RepairCreated(k)) =>
                /\ history[j].response.id # history[k].response.id
                /\ {history[j].response.id, history[k].response.id}
                      \subseteq DOMAIN history[k].db.reparations
                /\ Size(history[k].db.reparations) >= 2

====
